---------------------------- MODULE Spec2Model ----------------------------
(***************************************************************************)
(* A model of the btp-packet codec (interledgerjs/btp-packet).             *)
(*                                                                         *)
(* The codec is a set of pure functions over byte buffers.  Buffers are    *)
(* sequences of naturals in 0..255 and JavaScript strings are sequences of *)
(* character codes, so that every conversion between the two (ascii, hex,  *)
(* base64, decimal) is computed the way the code computes it.              *)
(*                                                                         *)
(* TLC integers are 32-bit signed.  A 32-bit unsigned value is therefore   *)
(* held as a pair <<h, l>> of 16-bit halves (value h * 65536 + l), and a   *)
(* 64-bit amount as the pair [hi, lo] of such words that the code itself   *)
(* uses.                                                                   *)
(***************************************************************************)
EXTENDS Integers, Sequences, FiniteSets, TLC

VARIABLES
  pc,          \* "idle", "encoded" (buffer holds a result) or "decoded"
  call,        \* the function that produced buffer
  btpVersion,  \* the version argument of the calls
  obj,         \* the packet given to serialize
  buffer,      \* what serialize returned or threw, or the buffer received
  packet,      \* what deserialize returned or threw
  helper,      \* the last call of a helper function: its name, input and result
  protocolNameCache  \* the buffers of the registered protocol names

vars == <<pc, call, btpVersion, obj, buffer, packet, helper, protocolNameCache>>

-----------------------------------------------------------------------------
(* Generic helpers                                                         *)

Max(a, b) == IF a >= b THEN a ELSE b

Min(a, b) == IF a <= b THEN a ELSE b

RECURSIVE Pow(_, _)
Pow(b, e) == IF e = 0 THEN 1 ELSE b * Pow(b, e - 1)

\* s[from..to] with 1-based inclusive indices, empty when from > to
Slice(s, from, to) == IF from > to THEN << >> ELSE SubSeq(s, from, to)

\* n copies of x
Repeat(x, n) == [i \in 1..n |-> x]

\* the largest value a model integer holds (readers saturate at it)
Huge == Pow(2, 30) + (Pow(2, 30) - 1)

-----------------------------------------------------------------------------
(* Results of the writing side: either the bytes written or the error     *)
(* thrown.                                                                 *)

WOk(b) == [ok |-> TRUE, err |-> "", bytes |-> b]

WErr(m) == [ok |-> FALSE, err |-> m, bytes |-> << >>]

\* sequential composition of two writes: the first throw wins
Cat(w1, w2) ==
  IF ~w1.ok THEN w1
  ELSE IF ~w2.ok THEN w2
  ELSE WOk(w1.bytes \o w2.bytes)

(* Results of the reading side: the value read and the cursor after it,   *)
(* or the error thrown.  The cursor counts the bytes consumed so far.      *)

ROk(v, p) == [ok |-> TRUE, err |-> "", val |-> v, pos |-> p]

RErr(m) == [ok |-> FALSE, err |-> m, val |-> 0, pos |-> 0]

\* F(v) with v worked out once, before F is applied to it, as JavaScript works
\* out the value of a const before the statements that use it
Once(v, F(_)) == CHOOSE y \in { F(x) : x \in {v} } : TRUE

\* sequential composition of two reads: a throw ends the function
Bind(r, F(_)) == IF ~r.ok THEN r ELSE F(r)

-----------------------------------------------------------------------------
(* oer-utils Writer                                                        *)

\* Writer.writeUInt(value, length): big-endian, length in 1..6
RECURSIVE BigEndian(_, _)
BigEndian(value, length) ==
  IF length = 0 THEN << >>
  ELSE Append(BigEndian(value \div 256, length - 1), value % 256)

\* whether value fits in length bytes (length <= 3 compared exactly; any
\* model integer fits in 4 bytes and more)
FitsIn(value, length) == length >= 4 \/ value < Pow(256, length)

writeUInt(value, length) ==
  IF value < 0 THEN WErr("UInt must be positive")
  ELSE IF length <= 0 THEN WErr("UInt length must be greater than zero")
  ELSE IF length > 6 THEN WErr("UInt length too large")
  ELSE IF ~FitsIn(value, length) THEN WErr("UInt does not fit")
  ELSE WOk(BigEndian(value, length))

writeUInt8(value) == writeUInt(value, 1)

\* Writer.writeUInt32 of a word <<h, l>>
writeUInt32(w) == Cat(writeUInt(w[1], 2), writeUInt(w[2], 2))

\* Writer.writeUInt64 of a pair [hi, lo] of words
writeUInt64(pair) == Cat(writeUInt32(pair[1]), writeUInt32(pair[2]))

\* number of bytes needed for a length of 128 and more
LengthOfLength(n) == IF n < 256 THEN 1 ELSE IF n < 65536 THEN 2 ELSE 3

\* the OER length determinant: one byte below 128, else 0x80 | k then k bytes
writeLengthPrefix(n) ==
  IF n <= 127 THEN writeUInt8(n)
  ELSE Cat(writeUInt8(128 + LengthOfLength(n)), writeUInt(n, LengthOfLength(n)))

\* Writer.writeVarOctetString(buffer)
writeVarOctetString(b) == Cat(writeLengthPrefix(Len(b)), WOk(b))

\* Writer.write(buffer)
write(b) == WOk(b)

-----------------------------------------------------------------------------
(* oer-utils Reader over a buffer buf with cursor pos                      *)

RECURSIVE FromBigEndian(_)
FromBigEndian(bytes) ==
  IF Len(bytes) = 0 THEN 0
  ELSE LET hiPart == FromBigEndian(SubSeq(bytes, 1, Len(bytes) - 1))
       IN IF hiPart >= 8388608 THEN Huge
          ELSE hiPart * 256 + bytes[Len(bytes)]

\* Reader.read(n)
read(buf, pos, n) ==
  IF pos + n > Len(buf) THEN RErr("underflow")
  ELSE ROk(Slice(buf, pos + 1, pos + n), pos + n)

\* Reader.readUInt(length): 0 for length 0, at most 6 bytes
readUInt(buf, pos, length) ==
  IF length = 0 THEN ROk(0, pos)
  ELSE IF length > 6 THEN RErr("too large integer")
  ELSE Bind(read(buf, pos, length), LAMBDA r : ROk(FromBigEndian(r.val), r.pos))

readUInt8(buf, pos) == readUInt(buf, pos, 1)

\* Reader.readUInt32: the word <<h, l>>
readUInt32(buf, pos) ==
  Bind(read(buf, pos, 4), LAMBDA r :
    ROk(<<r.val[1] * 256 + r.val[2], r.val[3] * 256 + r.val[4]>>, r.pos))

\* Reader.readUInt64: the pair [hi, lo]
readUInt64(buf, pos) ==
  Bind(readUInt32(buf, pos), LAMBDA h :
  Bind(readUInt32(buf, h.pos), LAMBDA l :
    ROk(<<h.val, l.val>>, l.pos)))

\* the least length that needs a prefix of k bytes (1 << ((k - 1) * 8), where
\* the shift count is taken modulo 32), and 128 at least
MinLengthFor(k) == Max(128, Pow(2, ((k - 1) * 8) % 32))

\* Reader.readLengthPrefix: the decoded length
readLengthPrefix(buf, pos) ==
  Bind(readUInt8(buf, pos), LAMBDA b :
    IF b.val < 128 THEN b
    ELSE Bind(readUInt(buf, b.pos, b.val - 128), LAMBDA n :
           IF n.val < MinLengthFor(b.val - 128)
           THEN RErr("length prefix is not canonical")
           ELSE n))

\* Reader.readVarOctetString
readVarOctetString(buf, pos) ==
  Bind(readLengthPrefix(buf, pos), LAMBDA n : read(buf, n.pos, n.val))

-----------------------------------------------------------------------------
(* Node Buffer <-> string conversions                                      *)

\* Buffer.from(str, 'ascii'): the low byte of every character code
AsciiToBuffer(str) == [i \in 1..Len(str) |-> str[i] % 256]

\* buf.toString('ascii'): the high bit of every byte is cleared
BufferToAscii(buf) == [i \in 1..Len(buf) |-> buf[i] % 128]

\* Buffer.from(str, 'utf8') for character codes below 0x800
RECURSIVE Utf8ToBuffer(_)
Utf8ToBuffer(str) ==
  IF Len(str) = 0 THEN << >>
  ELSE IF Len(str) = 1
  THEN (IF str[1] < 128 THEN <<str[1]>>
        ELSE <<192 + (str[1] \div 64), 128 + (str[1] % 64)>>)
  ELSE Utf8ToBuffer(SubSeq(str, 1, Len(str) \div 2))
       \o Utf8ToBuffer(SubSeq(str, Len(str) \div 2 + 1, Len(str)))

\* buf.toString('utf8'): one- and two-byte sequences, U+FFFD for any other
\* byte.  The second byte of a sequence is never the first byte of one, so
\* byte i is taken up by the sequence before it exactly when byte i - 1 opens
\* a two-byte sequence.
BufferToUtf8(buf) ==
  LET Opens(i) == /\ buf[i] >= 194 /\ buf[i] <= 223 /\ i < Len(buf)
                  /\ buf[i + 1] >= 128 /\ buf[i + 1] <= 191
      starts == SelectSeq([i \in 1..Len(buf) |-> i],
                          LAMBDA i : ~(i > 1 /\ Opens(i - 1)))
  IN [k \in 1..Len(starts) |->
        IF buf[starts[k]] < 128 THEN buf[starts[k]]
        ELSE IF Opens(starts[k])
             THEN (buf[starts[k]] - 192) * 64 + (buf[starts[k] + 1] - 128)
        ELSE 65533]

\* value of a hexadecimal digit, -1 for any other character
HexVal(c) ==
  IF c >= 48 /\ c <= 57 THEN c - 48
  ELSE IF c >= 97 /\ c <= 102 THEN c - 87
  ELSE IF c >= 65 /\ c <= 70 THEN c - 55
  ELSE -1

\* Buffer.from(str, 'hex'): whole pairs of digits, up to the first invalid one
HexToBuffer(str) ==
  LET invalid == { k \in 1..(Len(str) \div 2) :
                     HexVal(str[2 * k - 1]) < 0 \/ HexVal(str[2 * k]) < 0 }
      n == IF invalid = {} THEN Len(str) \div 2
           ELSE (CHOOSE k \in invalid : \A j \in invalid : k <= j) - 1
  IN [k \in 1..n |-> HexVal(str[2 * k - 1]) * 16 + HexVal(str[2 * k])]

\* str.replace(/-/g, '')
RemoveHyphens(str) == SelectSeq(str, LAMBDA c : c # 45)

HexChar(v) == IF v < 10 THEN 48 + v ELSE 87 + v

BufferToHex(buf) ==
  [i \in 1..(2 * Len(buf)) |->
     IF i % 2 = 1 THEN HexChar(buf[(i + 1) \div 2] \div 16)
     ELSE HexChar(buf[i \div 2] % 16)]

\* uuidParse.unparse(buf): 8-4-4-4-12 lowercase hexadecimal digits
uuidUnparse(buf) ==
  LET h == BufferToHex(buf)
  IN Slice(h, 1, 8) \o <<45>> \o Slice(h, 9, 12) \o <<45>> \o Slice(h, 13, 16)
     \o <<45>> \o Slice(h, 17, 20) \o <<45>> \o Slice(h, 21, 32)

\* value of a base64 character in either alphabet, -1 for any other character
B64Val(c) ==
  IF c >= 65 /\ c <= 90 THEN c - 65
  ELSE IF c >= 97 /\ c <= 122 THEN c - 71
  ELSE IF c >= 48 /\ c <= 57 THEN c + 4
  ELSE IF c = 43 \/ c = 45 THEN 62
  ELSE IF c = 47 \/ c = 95 THEN 63
  ELSE -1

\* the characters up to the first '='
UpToPadding(str) ==
  LET padding == { i \in 1..Len(str) : str[i] = 61 }
  IN IF padding = {} THEN str
     ELSE SubSeq(str, 1, (CHOOSE i \in padding : \A j \in padding : i <= j) - 1)

\* the bytes that the 6-bit values v hold: byte j starts at bit 8 * (j - 1)
B64Groups(v) ==
  [j \in 1..((Len(v) * 6) \div 8) |->
     LET g == (8 * (j - 1)) \div 6
         o == (8 * (j - 1)) % 6
     IN IF o = 0 THEN v[g + 1] * 4 + (v[g + 2] \div 16)
        ELSE IF o = 2 THEN (v[g + 1] % 16) * 16 + (v[g + 2] \div 4)
        ELSE (v[g + 1] % 4) * 64 + v[g + 2]]

\* Buffer.from(str, 'base64'): both alphabets, other characters skipped
Base64ToBuffer(str) ==
  LET digits == SelectSeq(UpToPadding(str), LAMBDA c : B64Val(c) >= 0)
  IN B64Groups([i \in 1..Len(digits) |-> B64Val(digits[i])])

\* character of a 6-bit value in the URL-safe alphabet
B64UrlChar(v) ==
  IF v < 26 THEN 65 + v
  ELSE IF v < 52 THEN 71 + v
  ELSE IF v < 62 THEN v - 4
  ELSE IF v = 62 THEN 45
  ELSE 95

\* the k-th 6-bit value of the bytes buf: it starts at bit 6 * (k - 1), and
\* the bits past the last byte are 0
B64Sextet(buf, k) ==
  LET q == (6 * (k - 1)) \div 8
      o == (6 * (k - 1)) % 8
      cur == buf[q + 1]
      next == IF q + 2 <= Len(buf) THEN buf[q + 2] ELSE 0
  IN IF o = 0 THEN cur \div 4
     ELSE IF o = 6 THEN (cur % 4) * 16 + (next \div 16)
     ELSE IF o = 4 THEN (cur % 16) * 4 + (next \div 64)
     ELSE cur % 64

\* base64url(buf): URL-safe alphabet, no padding
base64url(buf) ==
  [k \in 1..((8 * Len(buf) + 5) \div 6) |-> B64UrlChar(B64Sextet(buf, k))]

-----------------------------------------------------------------------------
(* bignumber.js on decimal strings.  An integer is held as the sequence of *)
(* its decimal digit values, least significant first.                      *)

Reverse(s) == [i \in 1..Len(s) |-> s[Len(s) + 1 - i]]

\* whether str is a non-empty string of decimal digits
IsDecimal(str) == Len(str) > 0 /\ \A i \in 1..Len(str) : str[i] >= 48 /\ str[i] <= 57

\* long division of the digits (most significant first) by d, remainder rem so
\* far: the digits are brought down four at a time (fewer at the end), which
\* gives as many digits of the quotient
RECURSIVE LongDiv(_, _, _)
LongDiv(digits, d, rem) ==
  IF Len(digits) = 0 THEN [q |-> << >>, r |-> rem]
  ELSE Once(Min(4, Len(digits)), LAMBDA k :
       Once(rem * Pow(10, k) + digits[1] * Pow(10, k - 1)
            + (IF k >= 2 THEN digits[2] * Pow(10, k - 2) ELSE 0)
            + (IF k >= 3 THEN digits[3] * Pow(10, k - 3) ELSE 0)
            + (IF k >= 4 THEN digits[4] ELSE 0), LAMBDA t :
       Once(LongDiv(SubSeq(digits, k + 1, Len(digits)), d, t % d), LAMBDA rest :
         [q |-> [j \in 1..k |-> ((t \div d) \div Pow(10, k - j)) % 10] \o rest.q,
          r |-> rest.r])))

\* digits (least significant first) of a small natural number
RECURSIVE DigitsOf(_)
DigitsOf(n) == IF n = 0 THEN << >> ELSE <<n % 10>> \o DigitsOf(n \div 10)

\* digits * m + carry, all least significant first
RECURSIVE MulAdd(_, _, _)
MulAdd(digits, m, carry) ==
  IF Len(digits) = 0 THEN DigitsOf(carry)
  ELSE LET t == Head(digits) * m + carry
       IN <<t % 10>> \o MulAdd(Tail(digits), m, t \div 10)

IsZero(digits) == \A i \in 1..Len(digits) : digits[i] = 0

\* a word that no UInt32 holds: what toNumber() gives for NaN or 2^32 and more
NotAWord == <<-1, -1>>

-----------------------------------------------------------------------------
(* JavaScript Date values, held as their UTC calendar fields               *)

DateOf(y, mo, d, h, mi, sec, ms) ==
  [kind |-> "date", year |-> y, month |-> mo, day |-> d,
   hours |-> h, minutes |-> mi, seconds |-> sec, ms |-> ms]

InvalidDate ==
  [kind |-> "invalid", year |-> 0, month |-> 0, day |-> 0,
   hours |-> 0, minutes |-> 0, seconds |-> 0, ms |-> 0]

IsLeapYear(y) == (y % 4 = 0 /\ y % 100 # 0) \/ y % 400 = 0

DaysInMonth(y, mo) ==
  IF mo = 2 THEN (IF IsLeapYear(y) THEN 29 ELSE 28)
  ELSE IF mo \in {4, 6, 9, 11} THEN 30 ELSE 31

\* the calendar date of day d (1..32) of month mo, rolled into the next month
RollDay(y, mo, d, h, mi, sec, ms) ==
  IF d <= DaysInMonth(y, mo) THEN DateOf(y, mo, d, h, mi, sec, ms)
  ELSE IF mo = 12 THEN DateOf(y + 1, 1, d - DaysInMonth(y, mo), h, mi, sec, ms)
  ELSE DateOf(y, mo + 1, d - DaysInMonth(y, mo), h, mi, sec, ms)

\* new Date('YYYY-MM-DDTHH:MM:SS.mmmZ') from the numbers of its fields
NewDateFromIso(y, mo, d, h, mi, sec, ms) ==
  IF mo < 1 \/ mo > 12 \/ d < 1 \/ d > 31 \/ mi > 59 \/ sec > 59 THEN InvalidDate
  ELSE IF h > 24 \/ (h = 24 /\ (mi # 0 \/ sec # 0 \/ ms # 0)) THEN InvalidDate
  ELSE IF h = 24 THEN RollDay(y, mo, d + 1, 0, 0, 0, 0)
  ELSE RollDay(y, mo, d, h, mi, sec, ms)

\* String(val) padded with '0' on the left to len characters (dateformat's pad)
Pad(val, len) ==
  LET digits == IF val = 0 THEN <<0>> ELSE Reverse(DigitsOf(val))
      text == [i \in 1..Len(digits) |-> 48 + digits[i]]
  IN Repeat(48, Max(0, len - Len(text))) \o text

\* dateFormat(date, "UTC:yyyymmddHHMMss.l'Z'")
dateFormat(date) ==
  Pad(date.year, 4) \o Pad(date.month, 2) \o Pad(date.day, 2)
  \o Pad(date.hours, 2) \o Pad(date.minutes, 2) \o Pad(date.seconds, 2)
  \o <<46>> \o Pad(date.ms, 3) \o <<90>>

\* number denoted by a string of decimal digits (at most 4 of them)
RECURSIVE NumberOf(_)
NumberOf(str) ==
  IF Len(str) = 0 THEN 0
  ELSE NumberOf(SubSeq(str, 1, Len(str) - 1)) * 10 + (str[Len(str)] - 48)

-----------------------------------------------------------------------------
(* The versioned codec: constants and helpers                              *)

TYPE_ACK == 0
TYPE_RESPONSE == 1
TYPE_ERROR == 2
TYPE_PREPARE == 3
TYPE_FULFILL == 4
TYPE_REJECT == 5
TYPE_MESSAGE == 6
TYPE_TRANSFER == 7
MIME_APPLICATION_OCTET_STREAM == 0
MIME_TEXT_PLAIN_UTF8 == 1
MIME_APPLICATION_JSON == 2
BTP_VERSION_ALPHA == 0
BTP_VERSION_1 == 1
BTP_VERSION_1_1 == 2

\* typeToVersion with an alpha offset of two
typeToVersionOffsetTwo(type, version) ==
  IF version = BTP_VERSION_ALPHA THEN type + 2 ELSE type

typeToVersion(type, version) ==
  IF version = BTP_VERSION_ALPHA THEN type + 1 ELSE type

\* typeFromVersion that returns the wire byte under every version
typeFromVersionSame(type, version) == type

typeFromVersion(type, version) ==
  IF version = BTP_VERSION_ALPHA THEN type - 1 ELSE type

\* a JavaScript array and the value undefined
Arr(items) == [isArray |-> TRUE, items |-> items]

Undefined == [undefined |-> TRUE]

\* v === undefined; reading a property of undefined throws a TypeError
IsUndefined(v) == "undefined" \in DOMAIN v

\* Array.isArray(v)
IsArray(v) == "isArray" \in DOMAIN v /\ v.isArray

\* v.f, undefined when v has no such property
Field(v, f) == IF f \in DOMAIN v THEN v[f] ELSE Undefined

\* whether v has all the properties fs; using a missing one as a string, a
\* buffer or a date throws a TypeError
Has(v, fs) == fs \subseteq DOMAIN v

TypeError == WErr("TypeError")

\* [hi, lo] -> decimal string, through BigNumber(hi) * 2^32 + lo
twoNumbersToString(num) ==
  LET hi == num[1]
      lo == num[2]
      uint64 == MulAdd(MulAdd(MulAdd(DigitsOf(hi[1]), 65536, hi[2]),
                              65536, lo[1]), 65536, lo[2])
      digits == IF Len(uint64) = 0 THEN <<0>> ELSE Reverse(uint64)
  IN [i \in 1..Len(digits) |-> 48 + digits[i]]

\* stringToTwoNumbers through a double: above 2^53 the lowest bit is lost
stringToTwoNumbersAsDouble(num) ==
  IF ~IsDecimal(num) THEN <<NotAWord, NotAWord>>
  ELSE Once(LongDiv([i \in 1..Len(num) |-> num[i] - 48], 65536, 0), LAMBDA d1 :
       Once(LongDiv(d1.q, 65536, 0), LAMBDA d2 :
       Once(LongDiv(d2.q, 65536, 0), LAMBDA d3 :
       Once(LongDiv(d3.q, 65536, 0), LAMBDA d4 :
         << IF IsZero(d4.q) THEN <<d4.r, d3.r>> ELSE NotAWord,
            <<d2.r, IF d4.r >= 32 THEN d1.r - (d1.r % 2) ELSE d1.r>> >>))))

\* stringToTwoNumbers that returns [lo, hi]
stringToTwoNumbersLowFirst(num) ==
  IF ~IsDecimal(num) THEN <<NotAWord, NotAWord>>
  ELSE Once(LongDiv([i \in 1..Len(num) |-> num[i] - 48], 65536, 0), LAMBDA d1 :
       Once(LongDiv(d1.q, 65536, 0), LAMBDA d2 :
       Once(LongDiv(d2.q, 65536, 0), LAMBDA d3 :
       Once(LongDiv(d3.q, 65536, 0), LAMBDA d4 :
         << <<d2.r, d1.r>>,
            IF IsZero(d4.q) THEN <<d4.r, d3.r>> ELSE NotAWord >>))))

\* decimal string -> [hi, lo] = [n div 2^32, n mod 2^32], each divided in halves
stringToTwoNumbers(num) ==
  IF ~IsDecimal(num) THEN <<NotAWord, NotAWord>>
  ELSE Once(LongDiv([i \in 1..Len(num) |-> num[i] - 48], 65536, 0), LAMBDA d1 :
       Once(LongDiv(d1.q, 65536, 0), LAMBDA d2 :
       Once(LongDiv(d2.q, 65536, 0), LAMBDA d3 :
       Once(LongDiv(d3.q, 65536, 0), LAMBDA d4 :
         << IF IsZero(d4.q) THEN <<d4.r, d3.r>> ELSE NotAWord,
            <<d2.r, d1.r>> >>))))

\* Buffer of the GeneralizedTime text of a date; dateformat throws on Invalid Date
toGeneralizedTimeBuffer(date) ==
  IF date.kind # "date" THEN WErr("Invalid date")
  ELSE WOk(Utf8ToBuffer(dateFormat(date)))

\* GENERALIZED_TIME_REGEX: 14 digits, '.', 3 digits, 'Z'
MatchesGeneralizedTime(str) ==
  /\ Len(str) = 19
  /\ \A i \in (1..14) \cup (16..18) : str[i] >= 48 /\ str[i] <= 57
  /\ str[15] = 46
  /\ str[19] = 90

\* new Date(text) of a text of the GeneralizedTime shape, rewritten to ISO
DateOfGeneralizedTime(t) ==
  NewDateFromIso(NumberOf(Slice(t, 1, 4)), NumberOf(Slice(t, 5, 6)),
                 NumberOf(Slice(t, 7, 8)), NumberOf(Slice(t, 9, 10)),
                 NumberOf(Slice(t, 11, 12)), NumberOf(Slice(t, 13, 14)),
                 NumberOf(Slice(t, 16, 18)))

\* the ISO text 'YYYY-MM-DDTHH:MM:SS.mmmZ', which Date's own parser reads
MatchesIsoTime(str) ==
  /\ Len(str) = 24
  /\ \A i \in {1, 2, 3, 4, 6, 7, 9, 10, 12, 13, 15, 16, 18, 19, 21, 22, 23} :
       str[i] >= 48 /\ str[i] <= 57
  /\ str[5] = 45 /\ str[8] = 45 /\ str[11] = 84
  /\ str[14] = 58 /\ str[17] = 58 /\ str[20] = 46 /\ str[24] = 90

\* new Date(text) of a text that the regex did not rewrite: the ISO text is
\* read as it is, and the other texts given here are no date at all
DateOfOtherText(t) ==
  IF MatchesIsoTime(t)
  THEN NewDateFromIso(NumberOf(Slice(t, 1, 4)), NumberOf(Slice(t, 6, 7)),
                      NumberOf(Slice(t, 9, 10)), NumberOf(Slice(t, 12, 13)),
                      NumberOf(Slice(t, 15, 16)), NumberOf(Slice(t, 18, 19)),
                      NumberOf(Slice(t, 21, 23)))
  ELSE InvalidDate

\* a string that is not rewritten by the regex goes to Date's own parser as it
\* is; new Date never throws
readGeneralizedTime(buf, pos) ==
  Bind(readVarOctetString(buf, pos), LAMBDA r :
    IF MatchesGeneralizedTime(BufferToUtf8(r.val))
    THEN ROk(DateOfGeneralizedTime(BufferToUtf8(r.val)), r.pos)
    ELSE ROk(DateOfOtherText(BufferToUtf8(r.val)), r.pos))

\* the embedded ILP error: type byte, ONE byte holding the decoded length
\* (Buffer.from([n]) keeps n mod 256), then the contents
readIlpError(buf, pos) ==
  Bind(readUInt8(buf, pos), LAMBDA type :
  Bind(readLengthPrefix(buf, type.pos), LAMBDA length :
  Bind(readVarOctetString(buf, type.pos), LAMBDA contents :
    ROk(<<type.val>> \o <<length.val % 256>> \o contents.val, contents.pos))))

-----------------------------------------------------------------------------
(* The versioned codec: protocol data                                      *)

\* ceil(log2(m)) for m >= 1
RECURSIVE CeilLog2(_)
CeilLog2(m) == IF m <= 1 THEN 0 ELSE 1 + CeilLog2((m + 1) \div 2)

\* the width computed from log2(n) instead of log2(n + 1)
lengthPrefixLengthPrefixOfN(n) == Max(1, (CeilLog2(n) + 7) \div 8)

\* Math.max(1, Math.ceil((Math.log(n + 1) / Math.log(2)) / 8)).  The quotient
\* of the two doubles is exactly 8, 16, 24 and 32 at n + 1 = 2^8, 2^16, 2^24
\* and 2^32, and away from these powers it is further from a multiple of 8
\* than its rounding error, so the result is that of the exact logarithm.
lengthPrefixLengthPrefix(n) == Max(1, (CeilLog2(n + 1) + 7) \div 8)

\* an entry written with its content type first
writeProtocolDataEntryTypeFirst(p) ==
  Cat(Cat(writeUInt8(p.contentType),
          writeVarOctetString(AsciiToBuffer(p.protocolName))),
      writeVarOctetString(p.data))

\* one entry: name, content type, data
writeProtocolDataEntry(p) ==
  Cat(Cat(writeVarOctetString(AsciiToBuffer(p.protocolName)),
          writeUInt8(p.contentType)),
      writeVarOctetString(p.data))

\* the loop over the entries, in list order.  The list is split in halves so
\* that the evaluation of a long list nests only logarithmically.
RECURSIVE writeProtocolDataEntries(_)
writeProtocolDataEntries(items) ==
  IF Len(items) = 0 THEN WOk(<< >>)
  ELSE IF Len(items) = 1 THEN writeProtocolDataEntry(items[1])
  ELSE Cat(writeProtocolDataEntries(SubSeq(items, 1, Len(items) \div 2)),
           writeProtocolDataEntries(SubSeq(items, Len(items) \div 2 + 1, Len(items))))

\* the count of entries: its width in bytes, then the count in that width
writeProtocolDataLength(n) ==
  Cat(writeUInt8(lengthPrefixLengthPrefix(n)),
      writeUInt(n, lengthPrefixLengthPrefix(n)))

\* writeProtocolData that writes the empty list for a value that is no array
writeProtocolDataOrEmpty(protocolData) ==
  IF ~IsArray(protocolData) THEN writeProtocolDataLength(0)
  ELSE Cat(writeProtocolDataLength(Len(protocolData.items)),
           writeProtocolDataEntries(protocolData.items))

writeProtocolData(protocolData) ==
  IF ~IsArray(protocolData) THEN WErr("protocolData must be an array")
  ELSE Cat(writeProtocolDataLength(Len(protocolData.items)),
           writeProtocolDataEntries(protocolData.items))

\* the count of entries, as readProtocolData reads it back
readProtocolDataLength(buf, pos) ==
  Bind(readUInt8(buf, pos), LAMBDA lengthPrefixPrefix :
    readUInt(buf, lengthPrefixPrefix.pos, lengthPrefixPrefix.val))

readProtocolDataEntry(buf, pos) ==
  Bind(readVarOctetString(buf, pos), LAMBDA protocolName :
  Bind(readUInt8(buf, protocolName.pos), LAMBDA contentType :
  Bind(readVarOctetString(buf, contentType.pos), LAMBDA data :
    ROk([protocolName |-> BufferToAscii(protocolName.val),
         contentType |-> contentType.val,
         data |-> data.val], data.pos))))

\* the loop of readProtocolData ended without an error when the buffer is
\* used up
RECURSIVE readProtocolDataEntriesWhilePresent(_, _, _)
readProtocolDataEntriesWhilePresent(buf, pos, left) ==
  IF left <= 0 \/ pos >= Len(buf) THEN ROk(<< >>, pos)
  ELSE IF left > Len(buf) - pos + 1
  THEN readProtocolDataEntriesWhilePresent(buf, pos, Len(buf) - pos + 1)
  ELSE IF left = 1
  THEN Bind(readProtocolDataEntry(buf, pos), LAMBDA e : ROk(<<e.val>>, e.pos))
  ELSE Bind(readProtocolDataEntriesWhilePresent(buf, pos, left \div 2), LAMBDA first :
       Bind(readProtocolDataEntriesWhilePresent(buf, first.pos, left - left \div 2),
            LAMBDA rest : ROk(first.val \o rest.val, rest.pos)))

\* the loop of readProtocolData: left entries still to read, each from where
\* the one before it ended (split in halves like the loop that writes them).
\* An entry takes up bytes of the buffer, so a loop of more rounds than bytes
\* are left ends at the same failing round as one of that many rounds plus one.
RECURSIVE readProtocolDataEntries(_, _, _)
readProtocolDataEntries(buf, pos, left) ==
  IF left <= 0 THEN ROk(<< >>, pos)
  ELSE IF left > Len(buf) - pos + 1
  THEN readProtocolDataEntries(buf, pos, Len(buf) - pos + 1)
  ELSE IF left = 1
  THEN Bind(readProtocolDataEntry(buf, pos), LAMBDA e : ROk(<<e.val>>, e.pos))
  ELSE Bind(readProtocolDataEntries(buf, pos, left \div 2), LAMBDA first :
       Bind(readProtocolDataEntries(buf, first.pos, left - left \div 2), LAMBDA rest :
         ROk(first.val \o rest.val, rest.pos)))

\* readProtocolData that puts each entry before the ones read so far
readProtocolDataNewestFirst(buf, pos) ==
  Bind(readProtocolDataLength(buf, pos), LAMBDA lengthPrefix :
  Bind(readProtocolDataEntries(buf, lengthPrefix.pos, lengthPrefix.val),
       LAMBDA entries : ROk(Arr(Reverse(entries.val)), entries.pos)))

readProtocolData(buf, pos) ==
  Bind(readProtocolDataLength(buf, pos), LAMBDA lengthPrefix :
  Bind(readProtocolDataEntries(buf, lengthPrefix.pos, lengthPrefix.val),
       LAMBDA entries : ROk(Arr(entries.val), entries.pos)))

-----------------------------------------------------------------------------
(* The versioned codec: payloads                                           *)

\* writeTransfer that refuses alpha only
writeTransferFromVersion1(data, version) ==
  IF version < BTP_VERSION_1
  THEN WErr("TYPE_TRANSFER does not exist in earlier version than 1.1")
  ELSE IF ~Has(data, {"amount"}) THEN TypeError
  ELSE Cat(writeUInt64(stringToTwoNumbers(data.amount)),
           writeProtocolData(Field(data, "protocolData")))

writeTransfer(data, version) ==
  IF version < BTP_VERSION_1_1
  THEN WErr("TYPE_TRANSFER does not exist in earlier version than 1.1")
  ELSE IF ~Has(data, {"amount"}) THEN TypeError
  ELSE Cat(writeUInt64(stringToTwoNumbers(data.amount)),
           writeProtocolData(Field(data, "protocolData")))

writeError(data, version) ==
  IF version = BTP_VERSION_ALPHA
  THEN (IF ~Has(data, {"rejectionReason"}) THEN TypeError
        ELSE Cat(write(data.rejectionReason),
                 writeProtocolData(Field(data, "protocolData"))))
  ELSE IF ~Has(data, {"code"}) THEN TypeError
  ELSE IF Len(data.code) # 3 THEN WErr("error code must be 3 characters")
  ELSE IF ~Has(data, {"name", "triggeredAt", "data"}) THEN TypeError
  ELSE LET codeBuffer == AsciiToBuffer(data.code)
           nameBuffer == AsciiToBuffer(data.name)
           triggeredAtBuffer == toGeneralizedTimeBuffer(data.triggeredAt)
           dataBuffer == Utf8ToBuffer(data.data)
       IN IF ~triggeredAtBuffer.ok THEN triggeredAtBuffer
          ELSE Cat(Cat(Cat(Cat(write(codeBuffer), writeVarOctetString(nameBuffer)),
                           writeVarOctetString(triggeredAtBuffer.bytes)),
                       writeVarOctetString(dataBuffer)),
                   writeProtocolData(Field(data, "protocolData")))

\* writePrepare without transferId.replace(/-/g, ''): Buffer.from(str, 'hex')
\* stops at the first hyphen
writePrepareKeepHyphens(data) ==
  IF ~Has(data, {"transferId", "amount", "executionCondition", "expiresAt"})
  THEN TypeError
  ELSE
  LET transferIdBuffer == HexToBuffer(data.transferId)
      amountAsPair == stringToTwoNumbers(data.amount)
      executionConditionBuffer == Base64ToBuffer(data.executionCondition)
      expiresAtBuffer == toGeneralizedTimeBuffer(data.expiresAt)
  IN IF ~expiresAtBuffer.ok THEN expiresAtBuffer
     ELSE Cat(Cat(Cat(Cat(write(transferIdBuffer), writeUInt64(amountAsPair)),
                      write(executionConditionBuffer)),
                  writeVarOctetString(expiresAtBuffer.bytes)),
              writeProtocolData(Field(data, "protocolData")))

writePrepare(data) ==
  IF ~Has(data, {"transferId", "amount", "executionCondition", "expiresAt"})
  THEN TypeError
  ELSE
  LET transferIdBuffer == HexToBuffer(RemoveHyphens(data.transferId))
      amountAsPair == stringToTwoNumbers(data.amount)
      executionConditionBuffer == Base64ToBuffer(data.executionCondition)
      expiresAtBuffer == toGeneralizedTimeBuffer(data.expiresAt)
  IN IF ~expiresAtBuffer.ok THEN expiresAtBuffer
     ELSE Cat(Cat(Cat(Cat(write(transferIdBuffer), writeUInt64(amountAsPair)),
                      write(executionConditionBuffer)),
                  writeVarOctetString(expiresAtBuffer.bytes)),
              writeProtocolData(Field(data, "protocolData")))

writeFulfill(data) ==
  IF ~Has(data, {"transferId", "fulfillment"}) THEN TypeError
  ELSE
  LET transferIdBuffer == HexToBuffer(RemoveHyphens(data.transferId))
      fulfillmentBuffer == Base64ToBuffer(data.fulfillment)
  IN Cat(Cat(write(transferIdBuffer), write(fulfillmentBuffer)),
         writeProtocolData(Field(data, "protocolData")))

\* writeReject that writes the rejection reason under every version
writeRejectWithReason(data, version) ==
  IF ~Has(data, {"transferId"}) THEN TypeError
  ELSE
  LET transferIdBuffer == HexToBuffer(RemoveHyphens(data.transferId))
  IN Cat(Cat(write(transferIdBuffer),
             IF ~Has(data, {"rejectionReason"})
             THEN (IF version = BTP_VERSION_ALPHA THEN TypeError ELSE WOk(<< >>))
             ELSE write(data.rejectionReason)),
         writeProtocolData(Field(data, "protocolData")))

writeReject(data, version) ==
  IF ~Has(data, {"transferId"}) THEN TypeError
  ELSE
  LET transferIdBuffer == HexToBuffer(RemoveHyphens(data.transferId))
  IN Cat(Cat(write(transferIdBuffer),
             IF version # BTP_VERSION_ALPHA THEN WOk(<< >>)
             ELSE IF ~Has(data, {"rejectionReason"}) THEN TypeError
             ELSE write(data.rejectionReason)),
         writeProtocolData(Field(data, "protocolData")))

\* the payload of a packet, written by the function its type selects
writeContents(o, version) ==
  IF o.type \in {TYPE_ACK, TYPE_RESPONSE, TYPE_MESSAGE}
  THEN (IF version = BTP_VERSION_ALPHA THEN writeProtocolData(o.data)
        ELSE IF IsUndefined(o.data) THEN TypeError
        ELSE writeProtocolData(Field(o.data, "protocolData")))
  ELSE IF o.type = TYPE_TRANSFER THEN writeTransfer(o.data, version)
  ELSE IF o.type = TYPE_ERROR THEN writeError(o.data, version)
  ELSE IF o.type = TYPE_PREPARE THEN writePrepare(o.data)
  ELSE IF o.type = TYPE_FULFILL THEN writeFulfill(o.data)
  ELSE IF o.type = TYPE_REJECT THEN writeReject(o.data, version)
  ELSE WErr("Unrecognized type")

serialize(o, version) ==
  LET contents == writeContents(o, version)
  IN IF ~contents.ok THEN contents
     ELSE Cat(Cat(writeUInt8(typeToVersion(o.type, version)),
                  writeUInt32(o.requestId)),
              writeVarOctetString(contents.bytes))

readTransfer(buf, pos, version) ==
  IF version < BTP_VERSION_1_1
  THEN RErr("TYPE_TRANSFER does not exist in earlier version than 1.1")
  ELSE Bind(readUInt64(buf, pos), LAMBDA amount :
       Bind(readProtocolData(buf, amount.pos), LAMBDA protocolData :
         ROk([amount |-> twoNumbersToString(amount.val),
              protocolData |-> protocolData.val], protocolData.pos)))

readError(buf, pos, version) ==
  IF version = BTP_VERSION_ALPHA
  THEN Bind(readIlpError(buf, pos), LAMBDA rejectionReason :
       Bind(readProtocolData(buf, rejectionReason.pos), LAMBDA protocolData :
         ROk([rejectionReason |-> rejectionReason.val,
              protocolData |-> protocolData.val], protocolData.pos)))
  ELSE Bind(read(buf, pos, 3), LAMBDA code :
       Bind(readVarOctetString(buf, code.pos), LAMBDA name :
       Bind(readGeneralizedTime(buf, name.pos), LAMBDA triggeredAt :
       Bind(readVarOctetString(buf, triggeredAt.pos), LAMBDA data :
       Bind(readProtocolData(buf, data.pos), LAMBDA protocolData :
         ROk([code |-> BufferToAscii(code.val),
              name |-> BufferToAscii(name.val),
              triggeredAt |-> triggeredAt.val,
              data |-> BufferToUtf8(data.val),
              protocolData |-> protocolData.val], protocolData.pos))))))

readPrepare(buf, pos) ==
  Bind(read(buf, pos, 16), LAMBDA transferId :
  Bind(readUInt64(buf, transferId.pos), LAMBDA amount :
  Bind(read(buf, amount.pos, 32), LAMBDA executionCondition :
  Bind(readGeneralizedTime(buf, executionCondition.pos), LAMBDA expiresAt :
  Bind(readProtocolData(buf, expiresAt.pos), LAMBDA protocolData :
    ROk([transferId |-> uuidUnparse(transferId.val),
         amount |-> twoNumbersToString(amount.val),
         executionCondition |-> base64url(executionCondition.val),
         expiresAt |-> expiresAt.val,
         protocolData |-> protocolData.val], protocolData.pos))))))

readFulfill(buf, pos) ==
  Bind(read(buf, pos, 16), LAMBDA transferId :
  Bind(read(buf, transferId.pos, 32), LAMBDA fulfillment :
  Bind(readProtocolData(buf, fulfillment.pos), LAMBDA protocolData :
    ROk([transferId |-> uuidUnparse(transferId.val),
         fulfillment |-> base64url(fulfillment.val),
         protocolData |-> protocolData.val], protocolData.pos))))

readReject(buf, pos, version) ==
  Bind(read(buf, pos, 16), LAMBDA transferId :
    IF version = BTP_VERSION_ALPHA
    THEN Bind(readIlpError(buf, transferId.pos), LAMBDA rejectionReason :
         Bind(readProtocolData(buf, rejectionReason.pos), LAMBDA protocolData :
           ROk([transferId |-> uuidUnparse(transferId.val),
                rejectionReason |-> rejectionReason.val,
                protocolData |-> protocolData.val], protocolData.pos)))
    ELSE Bind(readProtocolData(buf, transferId.pos), LAMBDA protocolData :
           ROk([transferId |-> uuidUnparse(transferId.val),
                protocolData |-> protocolData.val], protocolData.pos)))

\* readContents that reads a protocol-data list for every type it does not know
readContentsDefaultList(type, dataBuff, version) ==
  IF type = TYPE_TRANSFER THEN readTransfer(dataBuff, 0, version)
  ELSE IF type = TYPE_ERROR THEN readError(dataBuff, 0, version)
  ELSE IF type = TYPE_PREPARE THEN readPrepare(dataBuff, 0)
  ELSE IF type = TYPE_FULFILL THEN readFulfill(dataBuff, 0)
  ELSE IF type = TYPE_REJECT THEN readReject(dataBuff, 0, version)
  ELSE Bind(readProtocolData(dataBuff, 0), LAMBDA protocolData :
         IF version = BTP_VERSION_ALPHA THEN protocolData
         ELSE ROk([protocolData |-> protocolData.val], protocolData.pos))

\* readContents that fails when the fields do not use up the payload
readContentsExhaustive(type, dataBuff, version) ==
  Bind(IF type \in {TYPE_ACK, TYPE_RESPONSE, TYPE_MESSAGE}
       THEN Bind(readProtocolData(dataBuff, 0), LAMBDA protocolData :
              IF version = BTP_VERSION_ALPHA THEN protocolData
              ELSE ROk([protocolData |-> protocolData.val], protocolData.pos))
       ELSE IF type = TYPE_TRANSFER THEN readTransfer(dataBuff, 0, version)
       ELSE IF type = TYPE_ERROR THEN readError(dataBuff, 0, version)
       ELSE IF type = TYPE_PREPARE THEN readPrepare(dataBuff, 0)
       ELSE IF type = TYPE_FULFILL THEN readFulfill(dataBuff, 0)
       ELSE IF type = TYPE_REJECT THEN readReject(dataBuff, 0, version)
       ELSE RErr("Unrecognized type"),
       LAMBDA data :
         IF data.pos # Len(dataBuff) THEN RErr("payload not exhausted") ELSE data)

\* the payload dataBuff of a packet, read by the function its type selects
readContents(type, dataBuff, version) ==
  IF type \in {TYPE_ACK, TYPE_RESPONSE, TYPE_MESSAGE}
  THEN Bind(readProtocolData(dataBuff, 0), LAMBDA protocolData :
         IF version = BTP_VERSION_ALPHA THEN protocolData
         ELSE ROk([protocolData |-> protocolData.val], protocolData.pos))
  ELSE IF type = TYPE_TRANSFER THEN readTransfer(dataBuff, 0, version)
  ELSE IF type = TYPE_ERROR THEN readError(dataBuff, 0, version)
  ELSE IF type = TYPE_PREPARE THEN readPrepare(dataBuff, 0)
  ELSE IF type = TYPE_FULFILL THEN readFulfill(dataBuff, 0)
  ELSE IF type = TYPE_REJECT THEN readReject(dataBuff, 0, version)
  ELSE RErr("Unrecognized type")

\* deserialize that returns an empty MESSAGE when a read fails
deserializeLenient(buf, version) ==
  LET result ==
        Bind(readUInt8(buf, 0), LAMBDA wireType :
        Bind(readUInt32(buf, wireType.pos), LAMBDA requestId :
        Bind(readVarOctetString(buf, requestId.pos), LAMBDA dataBuff :
        Bind(readContents(typeFromVersion(wireType.val, version), dataBuff.val,
                          version),
             LAMBDA data :
               ROk([type |-> typeFromVersion(wireType.val, version),
                    requestId |-> requestId.val,
                    data |-> data.val], dataBuff.pos)))))
  IN IF result.ok THEN result
     ELSE ROk([type |-> TYPE_MESSAGE, requestId |-> <<0, 0>>,
               data |-> [protocolData |-> Arr(<< >>)]], Len(buf))

\* deserialize that fails when bytes follow the envelope
deserializeStrict(buf, version) ==
  Bind(readUInt8(buf, 0), LAMBDA wireType :
  Bind(readUInt32(buf, wireType.pos), LAMBDA requestId :
  Bind(readVarOctetString(buf, requestId.pos), LAMBDA dataBuff :
  Bind(readContents(typeFromVersion(wireType.val, version), dataBuff.val, version),
       LAMBDA data :
         IF dataBuff.pos # Len(buf) THEN RErr("trailing bytes")
         ELSE ROk([type |-> typeFromVersion(wireType.val, version),
                   requestId |-> requestId.val,
                   data |-> data.val], dataBuff.pos)))))

deserialize(buf, version) ==
  Bind(readUInt8(buf, 0), LAMBDA wireType :
  Bind(readUInt32(buf, wireType.pos), LAMBDA requestId :
  Bind(readVarOctetString(buf, requestId.pos), LAMBDA dataBuff :
  Bind(readContents(typeFromVersion(wireType.val, version), dataBuff.val, version),
       LAMBDA data :
         ROk([type |-> typeFromVersion(wireType.val, version),
              requestId |-> requestId.val,
              data |-> data.val], dataBuff.pos)))))

\* the convenience function for TRANSFER
serializeTransfer(transfer, requestId, protocolData, version) ==
  IF version < BTP_VERSION_1_1
  THEN WErr("TYPE_TRANSFER does not exist in earlier version than 1.1")
  ELSE serialize([type |-> TYPE_TRANSFER, requestId |-> requestId,
                  data |-> [amount |-> transfer.amount,
                            protocolData |-> protocolData]], version)

\* the value of a parameter declared with a default value; arg is the list of
\* the optional arguments of the call: << >> when the argument is left out
OrDefault(arg, default) == IF Len(arg) = 0 THEN default ELSE arg[1]

\* const { f1, f2 } = o: the properties fs of o; one that o does not define is
\* undefined in the copy as well, which is held as the property being absent
Pick(o, fs) == [f \in fs \cap DOMAIN o |-> o[f]]

\* { ...fields, protocolData }
WithProtocolData(fields, protocolData) ==
  [f \in DOMAIN fields \cup {"protocolData"} |->
     IF f = "protocolData" THEN protocolData ELSE fields[f]]

serializeAck(requestId, protocolData) ==
  serialize([type |-> TYPE_ACK, requestId |-> requestId, data |-> protocolData],
            BTP_VERSION_ALPHA)

\* serializeResponse that wraps the list under every version
serializeResponseWrapped(requestId, protocolData, versionArg) ==
  serialize([type |-> TYPE_RESPONSE, requestId |-> requestId,
             data |-> [protocolData |-> protocolData]],
            OrDefault(versionArg, BTP_VERSION_1))

serializeResponse(requestId, protocolData, versionArg) ==
  LET version == OrDefault(versionArg, BTP_VERSION_1)
  IN serialize([type |-> TYPE_RESPONSE, requestId |-> requestId,
                data |-> IF version = BTP_VERSION_ALPHA THEN protocolData
                         ELSE [protocolData |-> protocolData]], version)

serializeError(error, requestId, protocolData, versionArg) ==
  LET version == OrDefault(versionArg, BTP_VERSION_1)
      dataFields ==
        IF version = BTP_VERSION_ALPHA
        THEN WithProtocolData(Pick(error, {"rejectionReason"}), protocolData)
        ELSE WithProtocolData(Pick(error, {"code", "name", "triggeredAt", "data"}),
                              protocolData)
  IN serialize([type |-> TYPE_ERROR, requestId |-> requestId, data |-> dataFields],
               version)

serializePrepare(transfer, requestId, protocolData, versionArg) ==
  serialize([type |-> TYPE_PREPARE, requestId |-> requestId,
             data |-> WithProtocolData(
                        Pick(transfer, {"transferId", "amount", "executionCondition",
                                        "expiresAt"}), protocolData)],
            OrDefault(versionArg, BTP_VERSION_1))

serializeFulfill(fulfill, requestId, protocolData, versionArg) ==
  serialize([type |-> TYPE_FULFILL, requestId |-> requestId,
             data |-> WithProtocolData(Pick(fulfill, {"transferId", "fulfillment"}),
                                       protocolData)],
            OrDefault(versionArg, BTP_VERSION_1))

serializeReject(reject, requestId, protocolData, versionArg) ==
  LET version == OrDefault(versionArg, BTP_VERSION_1)
      data == IF version = BTP_VERSION_ALPHA
              THEN WithProtocolData(Pick(reject, {"transferId", "rejectionReason"}),
                                    protocolData)
              ELSE WithProtocolData(Pick(reject, {"transferId"}), protocolData)
  IN serialize([type |-> TYPE_REJECT, requestId |-> requestId, data |-> data], version)

serializeMessage(requestId, protocolData, versionArg) ==
  LET version == OrDefault(versionArg, BTP_VERSION_1)
  IN serialize([type |-> TYPE_MESSAGE, requestId |-> requestId,
                data |-> IF version = BTP_VERSION_ALPHA THEN protocolData
                         ELSE [protocolData |-> protocolData]], version)

-----------------------------------------------------------------------------
(* The legacy codec (index.js): the envelope                               *)

\* writeEnvelope that writes the contents without their length
writeEnvelopeNoLength(type, requestId, contents) ==
  Cat(Cat(writeUInt8(type), writeUInt32(requestId)), write(contents))

writeEnvelope(type, requestId, contents) ==
  Cat(Cat(writeUInt8(type), writeUInt32(requestId)),
      writeVarOctetString(contents))

readEnvelope(envelope) ==
  Bind(readUInt8(envelope, 0), LAMBDA type :
  Bind(readUInt32(envelope, type.pos), LAMBDA requestId :
  Bind(readVarOctetString(envelope, requestId.pos), LAMBDA data :
    ROk([type |-> type.val, requestId |-> requestId.val, data |-> data.val],
        data.pos))))

-----------------------------------------------------------------------------
(* The legacy codec with side data (index.js): ACK.  An object is its      *)
(* prototype, {} for Object.prototype and {b} for the buffer b, and its    *)
(* own properties <<key, value>> in the order of Object.keys.              *)

TYPE_ACK_CLP == 1

\* '__proto__': assigning to it sets the prototype of a plain object
StrProto == <<95, 95, 112, 114, 111, 116, 111, 95, 95>>

\* { k1: v1, ... }
PlainObject(props) == [proto |-> {}, props |-> props]

\* Object.keys(o)
ObjectKeys(o) == [i \in 1..Len(o.props) |-> o.props[i][1]]

\* o[k] = v, for a buffer v
SetProperty(o, k, v) ==
  IF k = StrProto THEN [o EXCEPT !.proto = {v}]
  ELSE IF \E i \in 1..Len(o.props) : o.props[i][1] = k
  THEN [o EXCEPT !.props =
          [i \in 1..Len(o.props) |->
             IF o.props[i][1] = k THEN <<k, v>> ELSE o.props[i]]]
  ELSE [o EXCEPT !.props = Append(o.props, <<k, v>>)]

RECURSIVE writeSideDataEntries(_)
writeSideDataEntries(props) ==
  IF Len(props) = 0 THEN WOk(<< >>)
  ELSE IF Len(props) = 1
  THEN Cat(writeVarOctetString(AsciiToBuffer(props[1][1])),
           writeVarOctetString(props[1][2]))
  ELSE Cat(writeSideDataEntries(SubSeq(props, 1, Len(props) \div 2)),
           writeSideDataEntries(SubSeq(props, Len(props) \div 2 + 1, Len(props))))

writeSideData(sideData) ==
  Cat(Cat(writeUInt8(1), writeUInt8(Len(ObjectKeys(sideData)))),
      writeSideDataEntries(sideData.props))

RECURSIVE readSideDataEntries(_, _, _, _)
readSideDataEntries(buf, pos, left, sideData) ==
  IF left = 0 THEN ROk(sideData, pos)
  ELSE Bind(readVarOctetString(buf, pos), LAMBDA key :
       Bind(readVarOctetString(buf, key.pos), LAMBDA value :
         readSideDataEntries(buf, value.pos, left - 1,
                             SetProperty(sideData, BufferToAscii(key.val),
                                         value.val))))

readSideData(buf, pos) ==
  Bind(readUInt8(buf, pos), LAMBDA lengthPrefixPrefix :
  Bind(readUInt8(buf, lengthPrefixPrefix.pos), LAMBDA lengthPrefix :
    readSideDataEntries(buf, lengthPrefix.pos, lengthPrefix.val,
                        PlainObject(<< >>))))

serializeAckSideData(requestId, sideData) ==
  LET contents == writeSideData(sideData)
  IN IF ~contents.ok THEN contents
     ELSE writeEnvelope(TYPE_ACK_CLP, requestId, contents.bytes)

deserializeAckSideData(buf) ==
  Bind(readEnvelope(buf), LAMBDA envelope :
  Bind(readSideData(envelope.val.data, 0), LAMBDA sideData :
    ROk([requestId |-> envelope.val.requestId, sideData |-> sideData.val],
        envelope.pos)))

-----------------------------------------------------------------------------
(* The legacy codec (index.js): the rejection reason of ERROR and REJECT.  *)
(* A rejection reason is a Buffer, a string or an error object; the value  *)
(* carries its kind, which Buffer.isBuffer and typeof tell apart.          *)

TYPE_ERROR_CLP == 3
TYPE_REJECT_CLP == 6

BufferValue(bytes) == [kind |-> "buffer", bytes |-> bytes]

StringValue(chars) == [kind |-> "string", chars |-> chars]

\* ilp-packet writeVarUInt of a number below 256: length 1, then the number
writeVarUInt(n) == Cat(writeUInt8(1), writeUInt8(n))

\* the forwardedBy addresses, each a length-prefixed ascii string
RECURSIVE writeAddresses(_)
writeAddresses(list) ==
  IF Len(list) = 0 THEN WOk(<< >>)
  ELSE Cat(writeVarOctetString(AsciiToBuffer(Head(list))), writeAddresses(Tail(list)))

\* ilp-packet serializeIlpError: type byte 8, then the length-prefixed
\* contents: code, name, triggeredBy, forwardedBy, triggeredAt, data and an
\* empty extension marker
serializeIlpError(e) ==
  IF ~Has(e, {"code", "name", "triggeredBy", "forwardedBy", "triggeredAt", "data"})
  THEN TypeError
  ELSE LET triggeredAt == toGeneralizedTimeBuffer(e.triggeredAt)
           contents ==
             Cat(Cat(Cat(Cat(Cat(Cat(Cat(
               write(AsciiToBuffer(e.code)),
               writeVarOctetString(AsciiToBuffer(e.name))),
               writeVarOctetString(AsciiToBuffer(e.triggeredBy))),
               writeVarUInt(Len(e.forwardedBy))),
               writeAddresses(e.forwardedBy)),
               IF triggeredAt.ok THEN writeVarOctetString(triggeredAt.bytes)
               ELSE triggeredAt),
               writeVarOctetString(AsciiToBuffer(e.data))),
               writeUInt8(0))
       IN IF ~contents.ok THEN contents
          ELSE Cat(writeUInt8(8), writeVarOctetString(contents.bytes))

\* maybeSerializeIlpError that takes a string for the text of the packet
maybeSerializeIlpErrorAsText(error) ==
  IF error.kind = "buffer" THEN WOk(error.bytes)
  ELSE IF error.kind = "string" THEN WOk(Utf8ToBuffer(error.chars))
  ELSE serializeIlpError(error)

maybeSerializeIlpError(error) ==
  IF error.kind = "buffer" THEN WOk(error.bytes)
  ELSE IF error.kind = "string" THEN WOk(Base64ToBuffer(error.chars))
  ELSE serializeIlpError(error)

\* serializeError({ rejectionReason }, requestId, protocolData) of index.js
serializeErrorClp(error, requestId, protocolData) ==
  LET contents == Cat(maybeSerializeIlpError(error.rejectionReason),
                      writeProtocolData(protocolData))
  IN IF ~contents.ok THEN contents
     ELSE writeEnvelope(TYPE_ERROR_CLP, requestId, contents.bytes)

\* serializeReject({ transferId, rejectionReason }, requestId, protocolData)
serializeRejectClp(reject, requestId, protocolData) ==
  LET transferIdBuffer == HexToBuffer(RemoveHyphens(reject.transferId))
      contents == Cat(Cat(write(transferIdBuffer),
                          maybeSerializeIlpError(reject.rejectionReason)),
                      writeProtocolData(protocolData))
  IN IF ~contents.ok THEN contents
     ELSE writeEnvelope(TYPE_REJECT_CLP, requestId, contents.bytes)

-----------------------------------------------------------------------------
(* The TypeScript codec written with a Writer (no versions): RESPONSE,     *)
(* ERROR, MESSAGE and TRANSFER, with the type codes of versions 1 and 1.1  *)

\* 'F00'
StrF00 == <<70, 48, 48>>

\* data[f] || otherwise, for a string property: undefined and '' are falsy
OrElse(data, f, otherwise) ==
  IF f \in DOMAIN data /\ Len(data[f]) > 0 THEN data[f] ELSE otherwise

\* the last length bytes of the number with the given decimal digits, by
\* divisions by 256, and the digits of what is left above them
RECURSIVE BigEndianOfDigits(_, _)
BigEndianOfDigits(digits, length) ==
  IF length = 0 THEN [bytes |-> << >>, rest |-> digits]
  ELSE Once(LongDiv(digits, 256, 0), LAMBDA d :
       Once(BigEndianOfDigits(d.q, length - 1), LAMBDA high :
         [bytes |-> Append(high.bytes, d.r), rest |-> high.rest]))

\* writeUInt64 of a decimal string: the eight bytes of the number,
\* big-endian; no text but decimal digits and no number of 2^64 and more
writeUInt64String(amount) ==
  IF ~IsDecimal(amount) THEN WErr("UInt must be positive")
  ELSE Once(BigEndianOfDigits([i \in 1..Len(amount) |-> amount[i] - 48], 8),
            LAMBDA e : IF IsZero(e.rest) THEN WOk(e.bytes)
                       ELSE WErr("UInt must be positive"))

writeTransferW(data) ==
  IF ~Has(data, {"amount"}) THEN TypeError
  ELSE Cat(writeUInt64String(data.amount),
           writeProtocolData(Field(data, "protocolData")))

\* now is what new Date() returns when data has no triggeredAt
writeErrorW(data, now) ==
  IF Has(data, {"code"}) /\ Len(data.code) > 0 /\ Len(data.code) # 3
  THEN WErr("error code must be 3 characters")
  ELSE LET codeBuffer == AsciiToBuffer(OrElse(data, "code", StrF00))
           nameBuffer == AsciiToBuffer(OrElse(data, "name", << >>))
           triggeredAtBuffer ==
             toGeneralizedTimeBuffer(IF Has(data, {"triggeredAt"})
                                     THEN data.triggeredAt ELSE now)
           dataBuffer == Utf8ToBuffer(OrElse(data, "data", << >>))
       IN IF ~triggeredAtBuffer.ok THEN triggeredAtBuffer
          ELSE Cat(Cat(Cat(Cat(write(codeBuffer), writeVarOctetString(nameBuffer)),
                           writeVarOctetString(triggeredAtBuffer.bytes)),
                       writeVarOctetString(dataBuffer)),
                   writeProtocolData(Field(data, "protocolData")))

writeContentsW(o, now) ==
  IF o.type \in {TYPE_RESPONSE, TYPE_MESSAGE}
  THEN writeProtocolData(Field(o.data, "protocolData"))
  ELSE IF o.type = TYPE_TRANSFER THEN writeTransferW(o.data)
  ELSE IF o.type = TYPE_ERROR THEN writeErrorW(o.data, now)
  ELSE WErr("Unrecognized type")

serializeW(o, now) ==
  LET contents == writeContentsW(o, now)
  IN IF ~contents.ok THEN contents
     ELSE Cat(Cat(writeUInt8(o.type), writeUInt32(o.requestId)),
              writeVarOctetString(contents.bytes))

-----------------------------------------------------------------------------
(* The TypeScript codec written with a Predictor (no versions).  The cache *)
(* of protocol names maps the names registered so far to their buffers.    *)

\* 'ilp', 'auth', 'info', 'claim': names that the module registers when it loads
RegisteredNames ==
  { <<105, 108, 112>>, <<97, 117, 116, 104>>, <<105, 110, 102, 111>>,
    <<99, 108, 97, 105, 109>> }

\* 'constructor': a name that every object inherits, so that looking it up in
\* the cache gives a function
StrConstructor == <<99, 111, 110, 115, 116, 114, 117, 99, 116, 111, 114>>

ObjectPrototypeNames == { StrConstructor }

\* const protocolNameCache = {}: a function from the registered names to
\* their buffers
EmptyCache == [n \in {} |-> << >>]

\* for (const protocolName of names)
\*   protocolNameCache[protocolName] = Buffer.from(protocolName, 'ascii')
registerProtocolNames(cache, names) ==
  [n \in DOMAIN cache \cup names |->
     IF n \in names THEN AsciiToBuffer(n) ELSE cache[n]]

\* the cache once the module is loaded
CacheAtLoad == registerProtocolNames(EmptyCache, RegisteredNames)

\* protocolNameCache[p.protocolName] || Buffer.from(p.protocolName, 'ascii'),
\* given to writeVarOctetString, which takes buffers only
writeProtocolName(protocolName, cache) ==
  IF protocolName \in DOMAIN cache THEN writeVarOctetString(cache[protocolName])
  ELSE IF protocolName \in ObjectPrototypeNames THEN TypeError
  ELSE writeVarOctetString(AsciiToBuffer(protocolName))

writeProtocolDataEntryP(p, cache) ==
  Cat(Cat(writeProtocolName(p.protocolName, cache), writeUInt8(p.contentType)),
      writeVarOctetString(p.data))

RECURSIVE writeProtocolDataEntriesP(_, _)
writeProtocolDataEntriesP(items, cache) ==
  IF Len(items) = 0 THEN WOk(<< >>)
  ELSE IF Len(items) = 1 THEN writeProtocolDataEntryP(items[1], cache)
  ELSE Cat(writeProtocolDataEntriesP(SubSeq(items, 1, Len(items) \div 2), cache),
           writeProtocolDataEntriesP(SubSeq(items, Len(items) \div 2 + 1, Len(items)),
                                     cache))

writeProtocolDataP(protocolData, cache) ==
  IF ~IsArray(protocolData) THEN WErr("protocolData must be an array")
  ELSE Cat(writeProtocolDataLength(Len(protocolData.items)),
           writeProtocolDataEntriesP(protocolData.items, cache))

writeTransferP(data, cache) ==
  IF ~Has(data, {"amount"}) THEN TypeError
  ELSE Cat(writeUInt64String(data.amount),
           writeProtocolDataP(Field(data, "protocolData"), cache))

\* triggeredAt is the date that the string given to dateFormat denotes
writeErrorP(data, cache) ==
  IF ~Has(data, {"code"}) THEN TypeError
  ELSE IF Len(data.code) # 3 THEN WErr("error code must be 3 characters")
  ELSE IF ~Has(data, {"name", "triggeredAt", "data"}) THEN TypeError
  ELSE LET codeBuffer == AsciiToBuffer(data.code)
           nameBuffer == AsciiToBuffer(data.name)
           triggeredAtBuffer == toGeneralizedTimeBuffer(data.triggeredAt)
           dataBuffer == Utf8ToBuffer(data.data)
       IN IF ~triggeredAtBuffer.ok THEN triggeredAtBuffer
          ELSE Cat(Cat(Cat(Cat(write(codeBuffer), writeVarOctetString(nameBuffer)),
                           writeVarOctetString(triggeredAtBuffer.bytes)),
                       writeVarOctetString(dataBuffer)),
                   writeProtocolDataP(Field(data, "protocolData"), cache))

writeContentsP(o, cache) ==
  IF o.type \in {TYPE_RESPONSE, TYPE_MESSAGE}
  THEN writeProtocolDataP(Field(o.data, "protocolData"), cache)
  ELSE IF o.type = TYPE_TRANSFER THEN writeTransferP(o.data, cache)
  ELSE IF o.type = TYPE_ERROR THEN writeErrorP(o.data, cache)
  ELSE WErr("Unrecognized type")

\* what a Predictor holds after the calls made on it: the number of bytes
\* that they announce, or the error thrown between them
Predicted(n) == [ok |-> TRUE, err |-> "", length |-> n]

NotPredicted(m) == [ok |-> FALSE, err |-> m, length |-> 0]

\* n more bytes before what p holds
Skip(n, p) == IF p.ok THEN Predicted(n + p.length) ELSE p

\* Predictor.measureVarOctetString(length): the length prefix and the bytes
measureVarOctetString(length) ==
  (IF length <= 127 THEN 1 ELSE 1 + LengthOfLength(length)) + length

\* the length of protocolNameCache[p.protocolName] ||
\* Buffer.from(p.protocolName, 'ascii'); Object, found for 'constructor', has
\* the length 1
predictProtocolName(protocolName, cache) ==
  IF protocolName \in DOMAIN cache THEN Len(cache[protocolName])
  ELSE IF protocolName \in ObjectPrototypeNames THEN 1
  ELSE Len(AsciiToBuffer(protocolName))

RECURSIVE predictProtocolDataEntries(_, _)
predictProtocolDataEntries(items, cache) ==
  IF Len(items) = 0 THEN 0
  ELSE measureVarOctetString(predictProtocolName(items[1].protocolName, cache))
       + 1 + measureVarOctetString(Len(items[1].data))
       + predictProtocolDataEntries(Tail(items), cache)

\* writeProtocolData(writer, protocolData) with a Predictor as the writer
predictProtocolData(protocolData, cache) ==
  IF ~IsArray(protocolData) THEN NotPredicted("protocolData must be an array")
  ELSE Predicted(1 + lengthPrefixLengthPrefix(Len(protocolData.items))
                 + predictProtocolDataEntries(protocolData.items, cache))

\* writeError(writer, data) with a Predictor as the writer
predictError(data, cache) ==
  IF ~Has(data, {"code"}) THEN NotPredicted("TypeError")
  ELSE IF Len(data.code) # 3 THEN NotPredicted("error code must be 3 characters")
  ELSE IF ~Has(data, {"name", "triggeredAt", "data"}) THEN NotPredicted("TypeError")
  ELSE Once(toGeneralizedTimeBuffer(data.triggeredAt), LAMBDA triggeredAtBuffer :
         IF ~triggeredAtBuffer.ok THEN NotPredicted(triggeredAtBuffer.err)
         ELSE Skip(Len(AsciiToBuffer(data.code))
                   + measureVarOctetString(Len(AsciiToBuffer(data.name)))
                   + measureVarOctetString(Len(triggeredAtBuffer.bytes))
                   + measureVarOctetString(Len(Utf8ToBuffer(data.data))),
                   predictProtocolData(Field(data, "protocolData"), cache)))

\* writeContents(contentsPredictor, obj); writeUInt64 announces 8 bytes
predictContents(o, cache) ==
  IF o.type \in {TYPE_RESPONSE, TYPE_MESSAGE}
  THEN predictProtocolData(Field(o.data, "protocolData"), cache)
  ELSE IF o.type = TYPE_TRANSFER
  THEN Skip(8, predictProtocolData(Field(o.data, "protocolData"), cache))
  ELSE IF o.type = TYPE_ERROR THEN predictError(o.data, cache)
  ELSE NotPredicted("Unrecognized type")

\* the contents are written twice: to a Predictor, which gives their length,
\* then into the octet string of that length created in the envelope, which
\* takes no more bytes than that and keeps zeros where fewer are written
serializeP(o, cache) ==
  Once(predictContents(o, cache), LAMBDA contentsPredictor :
    IF ~contentsPredictor.ok THEN WErr(contentsPredictor.err)
    ELSE Once(writeContentsP(o, cache), LAMBDA contents :
      IF ~contents.ok THEN contents
      ELSE IF Len(contents.bytes) > contentsPredictor.length
      THEN WErr("RangeError")
      ELSE Cat(Cat(Cat(writeUInt8(o.type), writeUInt32(o.requestId)),
                   writeLengthPrefix(contentsPredictor.length)),
               WOk(contents.bytes
                   \o Repeat(0, contentsPredictor.length - Len(contents.bytes))))))

readTransferP(buf, pos) ==
  Bind(readUInt64(buf, pos), LAMBDA amount :
  Bind(readProtocolData(buf, amount.pos), LAMBDA protocolData :
    ROk([amount |-> twoNumbersToString(amount.val),
         protocolData |-> protocolData.val], protocolData.pos)))

readErrorP(buf, pos) ==
  Bind(read(buf, pos, 3), LAMBDA code :
  Bind(readVarOctetString(buf, code.pos), LAMBDA name :
  Bind(readGeneralizedTime(buf, name.pos), LAMBDA triggeredAt :
  Bind(readVarOctetString(buf, triggeredAt.pos), LAMBDA data :
  Bind(readProtocolData(buf, data.pos), LAMBDA protocolData :
    ROk([code |-> BufferToAscii(code.val),
         name |-> BufferToAscii(name.val),
         triggeredAt |-> triggeredAt.val,
         data |-> BufferToUtf8(data.val),
         protocolData |-> protocolData.val], protocolData.pos))))))

readContentsP(type, dataBuff) ==
  IF type \in {TYPE_RESPONSE, TYPE_MESSAGE}
  THEN Bind(readProtocolData(dataBuff, 0), LAMBDA protocolData :
         ROk([protocolData |-> protocolData.val], protocolData.pos))
  ELSE IF type = TYPE_TRANSFER THEN readTransferP(dataBuff, 0)
  ELSE IF type = TYPE_ERROR THEN readErrorP(dataBuff, 0)
  ELSE RErr("Unrecognized type")

deserializeP(buf) ==
  Bind(readUInt8(buf, 0), LAMBDA type :
  Bind(readUInt32(buf, type.pos), LAMBDA requestId :
  Bind(readVarOctetString(buf, requestId.pos), LAMBDA dataBuff :
  Bind(readContentsP(type.val, dataBuff.val), LAMBDA data :
    ROk([type |-> type.val, requestId |-> requestId.val, data |-> data.val],
        dataBuff.pos)))))

-----------------------------------------------------------------------------
(* Inputs of the calls                                                     *)

\* longest protocol-data list drawn from SomeEntries
MaxEntries == 2

\* 'ilp', 'foo', 'beep', 'json', 'bar', 'boop', '{}', 'L13', 'boo'
StrIlp == <<105, 108, 112>>
StrFoo == <<102, 111, 111>>
StrBeep == <<98, 101, 101, 112>>
StrJson == <<106, 115, 111, 110>>
StrBar == <<98, 97, 114>>
StrBoop == <<98, 111, 111, 112>>
StrBraces == <<123, 125>>
StrL13 == <<76, 49, 51>>
StrBoo == <<98, 111, 111>>

Entry(name, contentType, data) ==
  [protocolName |-> name, contentType |-> contentType, data |-> data]

\* the protocol data of the test vector, with an empty 'ilp' entry
VectorProtocolData ==
  << Entry(StrIlp, MIME_APPLICATION_OCTET_STREAM, << >>),
     Entry(StrFoo, MIME_APPLICATION_OCTET_STREAM, StrBar),
     Entry(StrBeep, MIME_TEXT_PLAIN_UTF8, StrBoop),
     Entry(StrJson, MIME_APPLICATION_JSON, StrBraces) >>

SomeEntries ==
  { Entry(StrIlp, MIME_APPLICATION_OCTET_STREAM, << >>),
    Entry(StrFoo, MIME_APPLICATION_OCTET_STREAM, StrBar),
    Entry(StrFoo, 255, <<0, 255, 128>>) }

\* an entry whose name and data need a length prefix of more than one byte
LongEntry == Entry(Repeat(97, 128), MIME_TEXT_PLAIN_UTF8, Repeat(200, 256))

ProtocolDataLists ==
  UNION { [1..k -> SomeEntries] : k \in 0..MaxEntries }
  \cup { VectorProtocolData, <<LongEntry>> }

\* 0, 1, 2^16 - 1, 2^16, 2^31, 2^32 - 1
RequestIds == { <<0, 0>>, <<0, 1>>, <<0, 65535>>, <<1, 0>>, <<32768, 0>>,
                <<65535, 65535>> }

Versions == {BTP_VERSION_ALPHA, BTP_VERSION_1, BTP_VERSION_1_1}

\* '0', '1000', '4294967295', '4294967296', '1234567890123',
\* '9007199254740993' (2^53 + 1), '18446744073709551615' (2^64 - 1)
Amounts ==
  { <<48>>, <<49, 48, 48, 48>>,
    <<52, 50, 57, 52, 57, 54, 55, 50, 57, 53>>,
    <<52, 50, 57, 52, 57, 54, 55, 50, 57, 54>>,
    <<49, 50, 51, 52, 53, 54, 55, 56, 57, 48, 49, 50, 51>>,
    <<57, 48, 48, 55, 49, 57, 57, 50, 53, 52, 55, 52, 48, 57, 57, 51>>,
    <<49, 56, 52, 52, 54, 55, 52, 52, 48, 55, 51, 55, 48, 57, 53, 53, 49, 54, 49, 53>> }

\* 2017-08-28T09:32:00.000Z, 1999-12-31T23:59:59.999Z, 0099-02-28T00:00:00.001Z
Dates ==
  { DateOf(2017, 8, 28, 9, 32, 0, 0), DateOf(1999, 12, 31, 23, 59, 59, 999),
    DateOf(99, 2, 28, 0, 0, 0, 1) }

\* 'b4c838f6-80b1-47f8-a82e-b1fcfbed89d5' and the all-'f' identifier
TransferIds ==
  { uuidUnparse(<<180, 200, 56, 246, 128, 177, 71, 248,
                  168, 46, 177, 252, 251, 237, 137, 213>>),
    uuidUnparse(Repeat(255, 16)) }

\* 32-byte digests as unpadded base64url text
Digests ==
  { base64url(<<219, 42, 249, 249, 219, 166, 255, 52, 179, 237, 173, 251, 152,
                107, 155, 180, 205, 75, 75, 65, 229, 4, 65, 25, 197, 93, 52,
                175, 218, 191, 252, 2>>),
    base64url(Repeat(0, 32)), base64url(Repeat(255, 32)) }

\* lengths of the contents of the embedded ILP errors
ReasonLengths == {0, 3, 127, 128, 300}

\* an ILP error packet: type byte 8, length prefix, contents
IlpError(n) == <<8>> \o writeVarOctetString(Repeat(66, n)).bytes

RejectionReasons == { IlpError(n) : n \in ReasonLengths }

\* error codes of 0, 2, 3 and 4 characters
Codes == { << >>, <<76, 49>>, StrL13, <<76, 49, 51, 51>> }

-----------------------------------------------------------------------------
(* Packets given to serialize                                              *)

Packet(type, requestId, data) ==
  [type |-> type, requestId |-> requestId, data |-> data]

\* ACK, RESPONSE and MESSAGE in the shape of alpha (the bare list) and in the
\* shape of versions 1 and 1.1 (an object holding the list)
ListPackets ==
  { Packet(t, r, Arr(l)) :
      t \in {TYPE_ACK, TYPE_RESPONSE, TYPE_MESSAGE}, r \in RequestIds,
      l \in ProtocolDataLists }
  \cup
  { Packet(t, r, [protocolData |-> Arr(l)]) :
      t \in {TYPE_ACK, TYPE_RESPONSE, TYPE_MESSAGE}, r \in RequestIds,
      l \in ProtocolDataLists }

TransferPackets ==
  { Packet(TYPE_TRANSFER, <<0, 1>>, [amount |-> a, protocolData |-> Arr(l)]) :
      a \in Amounts, l \in {<< >>, VectorProtocolData} }

\* ERROR in the shape of alpha (an embedded ILP error) and of versions 1 and 1.1
ErrorPackets ==
  { Packet(TYPE_ERROR, <<0, 1>>, [rejectionReason |-> e, protocolData |-> Arr(l)]) :
      e \in RejectionReasons, l \in {<< >>, VectorProtocolData} }
  \cup
  { Packet(TYPE_ERROR, <<0, 1>>,
           [code |-> c, name |-> n, triggeredAt |-> d, data |-> t,
            protocolData |-> Arr(VectorProtocolData)]) :
      c \in Codes, n \in {<< >>, StrFoo}, d \in Dates, t \in {StrBoo, <<233, 33>>} }

PreparePackets ==
  { Packet(TYPE_PREPARE, <<0, 1>>,
           [transferId |-> i, amount |-> a, executionCondition |-> c,
            expiresAt |-> d, protocolData |-> Arr(VectorProtocolData)]) :
      i \in TransferIds, a \in Amounts, c \in Digests, d \in Dates }

FulfillPackets ==
  { Packet(TYPE_FULFILL, <<0, 1>>,
           [transferId |-> i, fulfillment |-> f, protocolData |-> Arr(l)]) :
      i \in TransferIds, f \in Digests, l \in {<< >>, VectorProtocolData} }

\* REJECT with a rejection reason (alpha) and without one (versions 1 and 1.1)
RejectPackets ==
  { Packet(TYPE_REJECT, <<0, 1>>,
           [transferId |-> i, rejectionReason |-> e,
            protocolData |-> Arr(VectorProtocolData)]) :
      i \in TransferIds, e \in RejectionReasons }
  \cup
  { Packet(TYPE_REJECT, <<0, 1>>, [transferId |-> i, protocolData |-> Arr(l)]) :
      i \in TransferIds, l \in {<< >>, VectorProtocolData} }

\* types that no version knows
UnknownTypes == {-1, 8, 9, 255}

UnknownPackets ==
  { Packet(t, <<0, 1>>, d) :
      t \in UnknownTypes, d \in {Arr(<< >>), [protocolData |-> Arr(<< >>)]} }

Packets ==
  ListPackets \cup TransferPackets \cup ErrorPackets \cup PreparePackets
  \cup FulfillPackets \cup RejectPackets \cup UnknownPackets

NoPacket == Packet(-2, <<0, 0>>, Undefined)

NotCalled == RErr("not called")

-----------------------------------------------------------------------------
(* The calls of the versioned codec                                        *)

Init ==
  /\ pc = "idle"
  /\ call = "none"
  /\ btpVersion = BTP_VERSION_1_1
  /\ obj = NoPacket
  /\ buffer = WErr("not called")
  /\ packet = NotCalled
  /\ helper = [fn |-> "none"]
  /\ protocolNameCache = CacheAtLoad

\* serialize(o, v)
Serialize ==
  /\ pc = "idle"
  /\ \E o \in Packets, v \in Versions :
       /\ pc' = "encoded"
       /\ call' = "serialize"
       /\ btpVersion' = v
       /\ obj' = o
       /\ buffer' = serialize(o, v)
       /\ packet' = NotCalled
       /\ UNCHANGED <<helper, protocolNameCache>>

\* serializeTransfer({amount}, requestId, protocolData, v); obj is the packet
\* that it hands to serialize
SerializeTransfer ==
  /\ pc = "idle"
  /\ \E o \in TransferPackets, v \in Versions :
       /\ pc' = "encoded"
       /\ call' = "serializeTransfer"
       /\ btpVersion' = v
       /\ obj' = o
       /\ buffer' = serializeTransfer([amount |-> o.data.amount], o.requestId,
                                      o.data.protocolData, v)
       /\ packet' = NotCalled
       /\ UNCHANGED <<helper, protocolNameCache>>

\* deserialize(buffer, btpVersion) of the buffer that the last call returned
Deserialize ==
  /\ pc = "encoded"
  /\ call \in {"serialize", "serializeTransfer", "receive", "receivePrefix",
              "receiveTrailing", "receiveExtra", "receiveTime"}
  /\ buffer.ok
  /\ pc' = "decoded"
  /\ packet' = deserialize(buffer.bytes, btpVersion)
  /\ UNCHANGED <<call, btpVersion, obj, buffer, helper, protocolNameCache>>

\* one well-formed packet of every payload layout
SamplePackets ==
  { Packet(TYPE_MESSAGE, <<0, 1>>, [protocolData |-> Arr(VectorProtocolData)]),
    Packet(TYPE_TRANSFER, <<0, 1>>,
           [amount |-> <<49, 48, 48, 48>>, protocolData |-> Arr(VectorProtocolData)]),
    Packet(TYPE_ERROR, <<0, 1>>,
           [code |-> StrL13, name |-> StrFoo,
            triggeredAt |-> DateOf(2017, 8, 28, 9, 32, 0, 0), data |-> StrBoo,
            protocolData |-> Arr(VectorProtocolData)]),
    Packet(TYPE_ERROR, <<0, 1>>,
           [rejectionReason |-> IlpError(3), protocolData |-> Arr(VectorProtocolData)]),
    Packet(TYPE_PREPARE, <<0, 1>>,
           [transferId |-> uuidUnparse(Repeat(255, 16)), amount |-> <<49, 48, 48, 48>>,
            executionCondition |-> base64url(Repeat(255, 32)),
            expiresAt |-> DateOf(2017, 8, 28, 9, 32, 0, 0),
            protocolData |-> Arr(VectorProtocolData)]),
    Packet(TYPE_FULFILL, <<0, 1>>,
           [transferId |-> uuidUnparse(Repeat(255, 16)),
            fulfillment |-> base64url(Repeat(255, 32)),
            protocolData |-> Arr(VectorProtocolData)]),
    Packet(TYPE_REJECT, <<0, 1>>,
           [transferId |-> uuidUnparse(Repeat(255, 16)),
            rejectionReason |-> IlpError(3),
            protocolData |-> Arr(VectorProtocolData)]) }

\* their encodings under any version
SampleBuffers ==
  { serialize(x[1], x[2]).bytes :
      x \in { y \in SamplePackets \X Versions : serialize(y[1], y[2]).ok } }

\* every value of the leading byte
TypeBytes == 0..255

\* leading bytes next to the two ends of the known ranges
EdgeTypeBytes == {0, 1, 7, 8, 9, 255}

\* buffers that a peer may send: the samples with any leading byte, and the
\* strict prefixes of the MESSAGE sample with a leading byte of EdgeTypeBytes
ReceivedBuffers ==
  { [b EXCEPT ![1] = t] : b \in SampleBuffers, t \in TypeBytes }
  \cup
  { SubSeq([b EXCEPT ![1] = t], 1, n) :
      b \in { serialize(Packet(TYPE_MESSAGE, <<0, 1>>,
                               [protocolData |-> Arr(VectorProtocolData)]),
                        BTP_VERSION_1_1).bytes },
      t \in EdgeTypeBytes, n \in 1..42 }

\* a buffer arrives from the peer
Receive ==
  /\ pc = "idle"
  /\ \E b \in ReceivedBuffers, v \in Versions :
       /\ pc' = "encoded"
       /\ call' = "receive"
       /\ btpVersion' = v
       /\ obj' = NoPacket
       /\ buffer' = WOk(b)
       /\ packet' = NotCalled
       /\ UNCHANGED <<helper, protocolNameCache>>

-----------------------------------------------------------------------------
(* The calls of the two TypeScript codecs                                  *)

\* packets given to the TypeScript codecs: the four types they know with
\* complete and with partial data, and types they do not know
PacketsTs ==
  { Packet(t, <<0, 1>>, [protocolData |-> Arr(l)]) :
      t \in {TYPE_RESPONSE, TYPE_MESSAGE},
      l \in { << >>, VectorProtocolData,
              <<Entry(StrConstructor, MIME_TEXT_PLAIN_UTF8, StrBar)>> } }
  \cup
  { Packet(TYPE_TRANSFER, <<0, 1>>, [amount |-> a, protocolData |-> Arr(<< >>)]) :
      a \in Amounts }
  \cup
  { Packet(TYPE_ERROR, <<0, 1>>,
           [code |-> c, name |-> n, triggeredAt |-> d, data |-> StrBoo,
            protocolData |-> Arr(VectorProtocolData)]) :
      c \in Codes, n \in {<< >>, StrFoo}, d \in Dates }
  \cup
  { Packet(TYPE_ERROR, <<0, 1>>, [protocolData |-> Arr(<< >>)]) }
  \cup
  { Packet(TYPE_ERROR, <<0, 1>>, [code |-> c, protocolData |-> Arr(<< >>)]) :
      c \in Codes }
  \cup
  { Packet(t, <<0, 1>>, [protocolData |-> Arr(<< >>)]) :
      t \in {TYPE_ACK, TYPE_PREPARE, TYPE_FULFILL, TYPE_REJECT} \cup UnknownTypes }

\* serialize(o) of the codec written with a Writer, called at time now
SerializeW ==
  /\ pc = "idle"
  /\ \E o \in PacketsTs, now \in Dates :
       /\ pc' = "encoded"
       /\ call' = "serializeW"
       /\ obj' = o
       /\ buffer' = serializeW(o, now)
       /\ packet' = NotCalled
       /\ helper' = [fn |-> "new Date", now |-> now]
       /\ UNCHANGED <<btpVersion, protocolNameCache>>

\* names given to registerProtocolNames: registered already, new, inherited
\* by every object
NamesToRegister == { <<105, 108, 112>>, StrFoo, StrConstructor }

\* registerProtocolNames(names) of the codec written with a Predictor; the
\* calls that follow are those of this codec, the only one with a cache
RegisterProtocolNames ==
  /\ pc \in {"idle", "registered"}
  /\ \E names \in SUBSET NamesToRegister :
       /\ pc' = "registered"
       /\ call' = "registerProtocolNames"
       /\ protocolNameCache' = registerProtocolNames(protocolNameCache, names)
       /\ UNCHANGED <<btpVersion, obj, buffer, packet, helper>>

\* serialize(o) of the codec written with a Predictor
SerializeP ==
  /\ pc \in {"idle", "registered"}
  /\ \E o \in PacketsTs :
       /\ pc' = "encoded"
       /\ call' = "serializeP"
       /\ obj' = o
       /\ buffer' = serializeP(o, protocolNameCache)
       /\ packet' = NotCalled
       /\ UNCHANGED <<btpVersion, helper, protocolNameCache>>

\* the encodings of the packets with complete data, with a leading byte next
\* to the known type codes, and the strict prefixes of the shortest of them
ReceivedBuffersP ==
  { [b EXCEPT ![1] = t] :
      b \in { serializeP(x, CacheAtLoad).bytes :
                x \in { y \in PacketsTs : serializeP(y, CacheAtLoad).ok } },
      t \in EdgeTypeBytes \cup {2, 3, 6} }
  \cup
  { SubSeq(<<t, 0, 0, 0, 1, 2, 1, 0>>, 1, n) : t \in EdgeTypeBytes, n \in 1..7 }

\* a buffer arrives from the peer of the codec written with a Predictor
ReceiveP ==
  /\ pc = "idle"
  /\ \E b \in ReceivedBuffersP :
       /\ pc' = "encoded"
       /\ call' = "receiveP"
       /\ obj' = NoPacket
       /\ buffer' = WOk(b)
       /\ packet' = NotCalled
       /\ UNCHANGED <<btpVersion, helper, protocolNameCache>>

\* deserialize(buffer) of the codec written with a Predictor
DeserializeP ==
  /\ pc = "encoded"
  /\ call \in {"serializeP", "receiveP"}
  /\ buffer.ok
  /\ pc' = "decoded"
  /\ packet' = deserializeP(buffer.bytes)
  /\ UNCHANGED <<call, btpVersion, obj, buffer, helper, protocolNameCache>>

\* serialize(o) of the codec written with a Writer, called again with the
\* same packet at a time of its own; the bytes of the first call are kept
SerializeAgain ==
  /\ pc = "encoded"
  /\ call = "serializeW"
  /\ \E now \in Dates :
       /\ pc' = "done"
       /\ call' = "serializeAgain"
       /\ buffer' = serializeW(obj, now)
       /\ helper' = [fn |-> "new Date", now |-> now, first |-> buffer]
       /\ UNCHANGED <<btpVersion, obj, packet, protocolNameCache>>

\* deserialize(buffer) of the codec written with a Predictor, called again
\* with the same buffer; the packet of the first call is kept
DeserializeAgain ==
  /\ pc = "decoded"
  /\ call \in {"serializeP", "receiveP"}
  /\ pc' = "done"
  /\ call' = "deserializeAgain"
  /\ packet' = deserializeP(buffer.bytes)
  /\ helper' = [fn |-> "deserialize", first |-> packet]
  /\ UNCHANGED <<btpVersion, obj, buffer, protocolNameCache>>

-----------------------------------------------------------------------------
(* The calls of the helper functions                                       *)

\* longest list of the counts 0..MaxCount whose length bytes are written
MaxCount == 257

\* the counts around the widths of one, two, three and four bytes
Counts ==
  (0..MaxCount) \cup {65534, 65535, 65536, 65537, 16777215, 16777216, 16777217}

\* the first bytes that writeProtocolData writes for a list of n entries
WriteProtocolDataLength ==
  /\ pc = "idle"
  /\ \E n \in Counts :
       /\ pc' = "helper"
       /\ helper' = [fn |-> "writeProtocolDataLength", n |-> n,
                     out |-> writeProtocolDataLength(n)]
       /\ UNCHANGED <<call, btpVersion, obj, buffer, packet, protocolNameCache>>

\* the first reads of readProtocolData on these bytes
ReadProtocolDataLength ==
  /\ pc = "helper"
  /\ helper.fn = "writeProtocolDataLength"
  /\ helper.out.ok
  /\ pc' = "done"
  /\ helper' = [fn |-> "readProtocolDataLength", n |-> helper.n, out |-> helper.out,
                back |-> readProtocolDataLength(helper.out.bytes, 0)]
  /\ UNCHANGED <<call, btpVersion, obj, buffer, packet, protocolNameCache>>

\* a list of n entries that differ from their neighbours
LongList(n) == [i \in 1..n |-> Entry(StrFoo, i % 256, <<i % 256, i \div 256>>)]

\* 'é': a name that is not ASCII
StrEAcute == <<233>>

HelperLists ==
  ProtocolDataLists
  \cup { LongList(n) : n \in {255, 256, 257} }
  \cup { <<Entry(StrEAcute, MIME_TEXT_PLAIN_UTF8, StrBar), Entry(StrFoo, 0, << >>)>> }

WriteProtocolData ==
  /\ pc = "idle"
  /\ \E l \in HelperLists :
       /\ pc' = "helper"
       /\ helper' = [fn |-> "writeProtocolData", protocolData |-> Arr(l),
                     out |-> writeProtocolData(Arr(l))]
       /\ UNCHANGED <<call, btpVersion, obj, buffer, packet, protocolNameCache>>

ReadProtocolData ==
  /\ pc = "helper"
  /\ helper.fn = "writeProtocolData"
  /\ helper.out.ok
  /\ pc' = "done"
  /\ helper' = [fn |-> "readProtocolData", protocolData |-> helper.protocolData,
                out |-> helper.out,
                back |-> readProtocolData(helper.out.bytes, 0)]
  /\ UNCHANGED <<call, btpVersion, obj, buffer, packet, protocolNameCache>>

\* payloads of 0, 1, 3, 127, 128 and 256 bytes
Payloads ==
  { << >>, <<0>>, StrBar, Repeat(255, 127), Repeat(1, 128), Repeat(7, 256) }

WriteEnvelope ==
  /\ pc = "idle"
  /\ \E t \in TypeBytes, r \in RequestIds, p \in Payloads :
       /\ pc' = "helper"
       /\ helper' = [fn |-> "writeEnvelope", type |-> t, requestId |-> r, contents |-> p,
                     out |-> writeEnvelope(t, r, p)]
       /\ UNCHANGED <<call, btpVersion, obj, buffer, packet, protocolNameCache>>

ReadEnvelope ==
  /\ pc = "helper"
  /\ helper.fn = "writeEnvelope"
  /\ helper.out.ok
  /\ pc' = "done"
  /\ helper' = [fn |-> "readEnvelope", type |-> helper.type,
                requestId |-> helper.requestId, contents |-> helper.contents,
                out |-> helper.out, back |-> readEnvelope(helper.out.bytes)]
  /\ UNCHANGED <<call, btpVersion, obj, buffer, packet, protocolNameCache>>

\* more amounts in canonical decimal: '255', '65536', '4294967297', '9007199254740992',
\* '9999999999999999999', '10000000000000000000',
\* '18446744069414584320', '18446744073709551614'
MoreAmounts ==
  { <<50, 53, 53>>,
    <<54, 53, 53, 51, 54>>,
    <<52, 50, 57, 52, 57, 54, 55, 50, 57, 55>>,
    <<57, 48, 48, 55, 49, 57, 57, 50, 53, 52, 55, 52, 48, 57, 57, 50>>,
    <<57, 57, 57, 57, 57, 57, 57, 57, 57, 57, 57, 57, 57, 57, 57, 57, 57, 57, 57>>,
    <<49, 48, 48, 48, 48, 48, 48, 48, 48, 48, 48, 48, 48, 48, 48, 48, 48, 48, 48, 48>>,
    <<49, 56, 52, 52, 54, 55, 52, 52, 48, 54, 57, 52, 49, 52, 53, 56, 52, 51, 50, 48>>,
    <<49, 56, 52, 52, 54, 55, 52, 52, 48, 55, 51, 55, 48, 57, 53, 53, 49, 54, 49, 52>> }

\* strings that are no canonical amount below 2^64: '007', '00', '',
\* '18446744073709551616' (2^64), '99999999999999999999', '12a'
OtherStrings ==
  { <<48, 48, 55>>,
    <<48, 48>>,
    << >>,
    <<49, 56, 52, 52, 54, 55, 52, 52, 48, 55, 51, 55, 48, 57, 53, 53, 49, 54, 49, 54>>,
    <<57, 57, 57, 57, 57, 57, 57, 57, 57, 57, 57, 57, 57, 57, 57, 57, 57, 57, 57, 57>>,
    <<49, 50, 97>> }

StringToTwoNumbers ==
  /\ pc = "idle"
  /\ \E a \in Amounts \cup MoreAmounts \cup OtherStrings :
       /\ pc' = "helper"
       /\ helper' = [fn |-> "stringToTwoNumbers", num |-> a,
                     pair |-> stringToTwoNumbers(a)]
       /\ UNCHANGED <<call, btpVersion, obj, buffer, packet, protocolNameCache>>

\* the pair goes through writeUInt64 and readUInt64 and comes back as a string
TwoNumbersToString ==
  /\ pc = "helper"
  /\ helper.fn = "stringToTwoNumbers"
  /\ writeUInt64(helper.pair).ok
  /\ pc' = "done"
  /\ helper' = [fn |-> "twoNumbersToString", num |-> helper.num, pair |-> helper.pair,
                str |-> twoNumbersToString(
                          readUInt64(writeUInt64(helper.pair).bytes, 0).val)]
  /\ UNCHANGED <<call, btpVersion, obj, buffer, packet, protocolNameCache>>

-----------------------------------------------------------------------------
(* The calls of the convenience functions                                  *)

\* the optional version argument: left out, or one of the versions
VersionArguments == {<< >>} \cup { <<v>> : v \in Versions }

\* the protocol-data list that a packet holds, bare or in an object
ListOf(o) == IF IsArray(o.data) THEN o.data ELSE Field(o.data, "protocolData")

\* the convenience function of the type of packet o, called with the
\* arguments taken from o and the optional version argument arg
Convenience(o, arg) ==
  CASE o.type = TYPE_ACK -> serializeAck(o.requestId, ListOf(o))
    [] o.type = TYPE_RESPONSE -> serializeResponse(o.requestId, ListOf(o), arg)
    [] o.type = TYPE_ERROR -> serializeError(o.data, o.requestId, ListOf(o), arg)
    [] o.type = TYPE_PREPARE -> serializePrepare(o.data, o.requestId, ListOf(o), arg)
    [] o.type = TYPE_FULFILL -> serializeFulfill(o.data, o.requestId, ListOf(o), arg)
    [] o.type = TYPE_REJECT -> serializeReject(o.data, o.requestId, ListOf(o), arg)
    [] o.type = TYPE_MESSAGE -> serializeMessage(o.requestId, ListOf(o), arg)
    [] o.type = TYPE_TRANSFER ->
         IF Len(arg) = 0
         THEN serializeTransfer(o.data, o.requestId, ListOf(o), BTP_VERSION_1_1)
         ELSE serializeTransfer(o.data, o.requestId, ListOf(o), arg[1])

\* serializeAck(...), ..., serializeTransfer(...): obj is the packet whose
\* parts are the arguments
SerializeConvenience ==
  /\ pc = "idle"
  /\ \E o \in Packets \ UnknownPackets, arg \in VersionArguments :
       /\ o.type = TYPE_ACK => arg = << >>
       /\ pc' = "done"
       /\ call' = "convenience"
       /\ obj' = o
       /\ buffer' = Convenience(o, arg)
       /\ helper' = [fn |-> "convenience", btpVersion |-> arg]
       /\ UNCHANGED <<btpVersion, packet, protocolNameCache>>

-----------------------------------------------------------------------------
(* The calls of the legacy codec with a rejection reason                   *)

\* character of a 6-bit value in the standard alphabet
B64Char(v) ==
  IF v < 26 THEN 65 + v
  ELSE IF v < 52 THEN 71 + v
  ELSE IF v < 62 THEN v - 4
  ELSE IF v = 62 THEN 43
  ELSE 47

\* buf.toString('base64'): standard alphabet, padded with '='
BufferToBase64(buf) ==
  [k \in 1..(4 * ((Len(buf) + 2) \div 3)) |->
     IF k <= (8 * Len(buf) + 5) \div 6 THEN B64Char(B64Sextet(buf, k)) ELSE 61]

\* 'errorName', 'peer.', 'die da'
StrErrorName == <<101, 114, 114, 111, 114, 78, 97, 109, 101>>
StrPeer == <<112, 101, 101, 114, 46>>
StrDieDa == <<100, 105, 101, 32, 100, 97>>

ErrorObject(name, forwardedBy, data) ==
  [kind |-> "object", code |-> StrL13, name |-> name, triggeredBy |-> StrPeer,
   forwardedBy |-> forwardedBy, triggeredAt |-> DateOf(2017, 8, 28, 9, 32, 0, 0),
   data |-> data]

\* the error of the tests
TestError == ErrorObject(StrErrorName, <<StrDieDa, StrDieDa, StrDieDa>>, StrBoo)

\* error objects whose packets have 67, 27, 28, 29 and 151 bytes of contents,
\* so that every padding of the base64 text and both widths of the length
\* prefix occur
ErrorObjects ==
  { TestError,
    ErrorObject(<< >>, << >>, << >>),
    ErrorObject(<<63>>, << >>, << >>),
    ErrorObject(<<63, 63>>, << >>, << >>),
    ErrorObject(StrErrorName, <<StrDieDa>>, Repeat(255, 101)) }

\* the three forms of a rejection reason: the object, the buffer of its
\* packet and the base64 text of that buffer
FormsOf(e) ==
  { [form |-> "object", value |-> e],
    [form |-> "buffer", value |-> BufferValue(serializeIlpError(e).bytes)],
    [form |-> "string",
     value |-> StringValue(BufferToBase64(serializeIlpError(e).bytes))] }

\* serializeError or serializeReject of index.js with a rejection reason in
\* one of its forms
SerializeClp ==
  /\ pc = "idle"
  /\ \E fn \in {"serializeError", "serializeReject"}, e \in ErrorObjects,
        i \in TransferIds, l \in {<< >>, VectorProtocolData} :
       \E f \in FormsOf(e) :
         /\ pc' = "done"
         /\ helper' =
              [fn |-> fn, reason |-> e, form |-> f.form, given |-> f.value,
               transferId |-> i, protocolData |-> Arr(l),
               out |-> IF fn = "serializeError"
                       THEN serializeErrorClp([rejectionReason |-> f.value],
                                              <<0, 1>>, Arr(l))
                       ELSE serializeRejectClp([transferId |-> i,
                                                rejectionReason |-> f.value],
                                               <<0, 1>>, Arr(l))]
         /\ UNCHANGED <<call, btpVersion, obj, buffer, packet, protocolNameCache>>

-----------------------------------------------------------------------------
(* The calls of the codec with side data                                   *)

\* keys of side data: empty, one letter, a word, and '__proto__'
SideDataKeys == { << >>, <<97>>, StrFoo, StrProto }

\* most own properties of the side data drawn
MaxKeys == 2

\* objects with up to MaxKeys own properties with distinct keys
SideDatas ==
  { PlainObject(props) :
      props \in { p \in UNION { [1..n -> SideDataKeys \X {<< >>, StrBoo}] :
                                 n \in 0..MaxKeys } :
                   \A i, j \in 1..Len(p) : p[i][1] = p[j][1] => i = j } }

\* serializeAck(requestId, sideData)
SerializeAckSideData ==
  /\ pc = "idle"
  /\ \E r \in {<<0, 1>>, <<65535, 65535>>}, sd \in SideDatas :
       /\ pc' = "encoded"
       /\ call' = "serializeAckSideData"
       /\ obj' = [requestId |-> r, sideData |-> sd]
       /\ buffer' = serializeAckSideData(r, sd)
       /\ packet' = NotCalled
       /\ UNCHANGED <<btpVersion, helper, protocolNameCache>>

\* deserializeAck(buffer)
DeserializeAckSideData ==
  /\ pc = "encoded"
  /\ call = "serializeAckSideData"
  /\ buffer.ok
  /\ pc' = "decoded"
  /\ packet' = deserializeAckSideData(buffer.bytes)
  /\ UNCHANGED <<call, btpVersion, obj, buffer, helper, protocolNameCache>>

-----------------------------------------------------------------------------
(* Buffers made from a valid encoding: cut short, followed by more bytes,  *)
(* or with more bytes inside the payload                                   *)

\* the sample packets with a version under which serialize accepts them
Encodings ==
  { x \in SamplePackets \X Versions : serialize(x[1], x[2]).ok }

\* bytes added to an encoding: one byte, a whole other packet, and enough to
\* take a payload past 127 bytes
AddedBytes ==
  { <<0>>, <<255>>,
    serialize(Packet(TYPE_MESSAGE, <<0, 1>>, [protocolData |-> Arr(VectorProtocolData)]),
              BTP_VERSION_1).bytes,
    Repeat(1, 200) }

\* the envelope of encoding b with the bytes s added at the end of its payload
WithExtra(b, s) ==
  SubSeq(b, 1, 5) \o writeVarOctetString(readVarOctetString(b, 5).val \o s).bytes

\* a strict prefix of a valid encoding arrives, the empty buffer included
ReceivePrefix ==
  /\ pc = "idle"
  /\ \E x \in Encodings :
       \E n \in 0..(Len(serialize(x[1], x[2]).bytes) - 1) :
         /\ pc' = "encoded"
         /\ call' = "receivePrefix"
         /\ btpVersion' = x[2]
         /\ obj' = x[1]
         /\ buffer' = WOk(SubSeq(serialize(x[1], x[2]).bytes, 1, n))
         /\ packet' = NotCalled
         /\ helper' = [fn |-> "receive", whole |-> serialize(x[1], x[2]).bytes]
  /\ UNCHANGED protocolNameCache

\* a valid encoding arrives with more bytes after it
ReceiveTrailing ==
  /\ pc = "idle"
  /\ \E x \in Encodings, s \in AddedBytes :
       /\ pc' = "encoded"
       /\ call' = "receiveTrailing"
       /\ btpVersion' = x[2]
       /\ obj' = x[1]
       /\ buffer' = WOk(serialize(x[1], x[2]).bytes \o s)
       /\ packet' = NotCalled
       /\ helper' = [fn |-> "receive", whole |-> serialize(x[1], x[2]).bytes]
  /\ UNCHANGED protocolNameCache

\* an envelope arrives whose payload holds the fields of its type and more
\* bytes after them, the declared length covering both
ReceiveExtra ==
  /\ pc = "idle"
  /\ \E x \in Encodings, s \in AddedBytes :
       /\ pc' = "encoded"
       /\ call' = "receiveExtra"
       /\ btpVersion' = x[2]
       /\ obj' = x[1]
       /\ buffer' = WOk(WithExtra(serialize(x[1], x[2]).bytes, s))
       /\ packet' = NotCalled
       /\ helper' = [fn |-> "receive", whole |-> serialize(x[1], x[2]).bytes]
  /\ UNCHANGED protocolNameCache

-----------------------------------------------------------------------------
(* Buffers whose timestamp field holds a given text                        *)

\* '20170828093200.000Z', the same without the 'Z', with a fraction of two
\* digits, with 'z', as ISO text, 'soon', the empty text, and two texts of
\* the shape that name no time of day or no month: '20170828240000.000Z'
\* (hour 24, the start of the next day) and '20171328093200.000Z' (month 13)
StrTime == <<50, 48, 49, 55, 48, 56, 50, 56, 48, 57, 51, 50, 48, 48, 46, 48, 48, 48, 90>>

TimeTexts ==
  { StrTime,
    SubSeq(StrTime, 1, 18),
    SubSeq(StrTime, 1, 17) \o <<90>>,
    SubSeq(StrTime, 1, 18) \o <<122>>,
    <<50, 48, 49, 55, 45, 48, 56, 45, 50, 56, 84, 48, 57, 58, 51, 50, 58, 48, 48, 46,
      48, 48, 48, 90>>,
    <<115, 111, 111, 110>>,
    << >>,
    [StrTime EXCEPT ![9] = 50, ![10] = 52, ![11] = 48, ![12] = 48],
    [StrTime EXCEPT ![5] = 49, ![6] = 51] }

\* a PREPARE and a structured ERROR whose timestamp field holds text
PrepareWithTime(text) ==
  writeEnvelope(TYPE_PREPARE, <<0, 1>>,
    Repeat(255, 16) \o <<0, 0, 0, 0, 0, 0, 3, 232>> \o Repeat(255, 32)
    \o writeVarOctetString(text).bytes
    \o writeProtocolData(Arr(VectorProtocolData)).bytes).bytes

ErrorWithTime(text) ==
  writeEnvelope(TYPE_ERROR, <<0, 1>>,
    StrL13 \o writeVarOctetString(StrFoo).bytes \o writeVarOctetString(text).bytes
    \o writeVarOctetString(StrBoo).bytes
    \o writeProtocolData(Arr(VectorProtocolData)).bytes).bytes

\* a PREPARE or an ERROR arrives under version 1 or 1.1 with some text in its
\* timestamp field
ReceiveTime ==
  /\ pc = "idle"
  /\ \E t \in TimeTexts, type \in {TYPE_PREPARE, TYPE_ERROR},
        v \in {BTP_VERSION_1, BTP_VERSION_1_1} :
       /\ pc' = "encoded"
       /\ call' = "receiveTime"
       /\ btpVersion' = v
       /\ obj' = NoPacket
       /\ buffer' = WOk(IF type = TYPE_PREPARE THEN PrepareWithTime(t)
                        ELSE ErrorWithTime(t))
       /\ packet' = NotCalled
       /\ helper' = [fn |-> "receive", time |-> t]
  /\ UNCHANGED protocolNameCache

-----------------------------------------------------------------------------
(* readProtocolData of buffers that no writeProtocolData wrote             *)

\* the entries of the test vector, as writeProtocolData lays them out
VectorEntries == writeProtocolDataEntries(VectorProtocolData).bytes

\* lists whose count width is missing in part or in whole, lists that declare
\* more entries than they hold, every strict prefix of the list of the test
\* vector, and lists that hold what they declare (a width of 0 and a count of
\* fewer entries than are present included)
ListBuffers ==
  { << >>, <<1>>, <<2, 0>>, <<3, 0, 1>>, <<6, 0, 0, 0>>,
    <<7, 0, 0, 0, 0, 0, 0, 1>> \o VectorEntries,
    <<1, 1>>, <<1, 1, 3, 105, 108>>, <<1, 1, 3, 105, 108, 112>>,
    <<1, 1, 3, 105, 108, 112, 0>>, <<1, 1, 3, 105, 108, 112, 0, 2, 7>>,
    <<1, 5>> \o VectorEntries,
    <<1, 255>> \o VectorEntries,
    <<2, 1, 0>> \o VectorEntries,
    <<2, 0, 5>> \o VectorEntries,
    <<4, 255, 255, 255, 255>> \o VectorEntries,
    <<6, 0, 0, 0, 0, 0, 5>> \o VectorEntries,
    <<0>>, <<0>> \o VectorEntries, <<1, 0>>, <<1, 3>> \o VectorEntries,
    <<1, 4>> \o VectorEntries, <<2, 0, 4>> \o VectorEntries,
    <<3, 0, 0, 4>> \o VectorEntries \o <<9>> }
  \cup
  { SubSeq(<<1, 4>> \o VectorEntries, 1, n) : n \in 0..36 }

\* readProtocolData(reader) of a reader over one of these buffers
ReadProtocolDataFrom ==
  /\ pc = "idle"
  /\ \E b \in ListBuffers :
       /\ pc' = "done"
       /\ helper' = [fn |-> "readProtocolDataFrom", buf |-> b,
                     out |-> readProtocolData(b, 0)]
       /\ UNCHANGED <<call, btpVersion, obj, buffer, packet, protocolNameCache>>

-----------------------------------------------------------------------------
(* serialize of packets whose protocol data is no array                    *)

\* one packet of each type with every field that some version writes
WholePackets ==
  { Packet(t, <<0, 1>>, [protocolData |-> Arr(VectorProtocolData)]) :
      t \in {TYPE_ACK, TYPE_RESPONSE, TYPE_MESSAGE} }
  \cup
  { Packet(TYPE_TRANSFER, <<0, 1>>,
           [amount |-> <<49, 48, 48, 48>>, protocolData |-> Arr(VectorProtocolData)]),
    Packet(TYPE_ERROR, <<0, 1>>,
           [rejectionReason |-> IlpError(3), code |-> StrL13, name |-> StrFoo,
            triggeredAt |-> DateOf(2017, 8, 28, 9, 32, 0, 0), data |-> StrBoo,
            protocolData |-> Arr(VectorProtocolData)]),
    Packet(TYPE_PREPARE, <<0, 1>>,
           [transferId |-> uuidUnparse(Repeat(255, 16)), amount |-> <<49, 48, 48, 48>>,
            executionCondition |-> base64url(Repeat(255, 32)),
            expiresAt |-> DateOf(2017, 8, 28, 9, 32, 0, 0),
            protocolData |-> Arr(VectorProtocolData)]),
    Packet(TYPE_FULFILL, <<0, 1>>,
           [transferId |-> uuidUnparse(Repeat(255, 16)),
            fulfillment |-> base64url(Repeat(255, 32)),
            protocolData |-> Arr(VectorProtocolData)]),
    Packet(TYPE_REJECT, <<0, 1>>,
           [transferId |-> uuidUnparse(Repeat(255, 16)),
            rejectionReason |-> IlpError(3),
            protocolData |-> Arr(VectorProtocolData)]) }

\* values that are no array: undefined, a string, a buffer, an object that
\* holds a list, an object with a length
NotArrays ==
  { Undefined, StringValue(StrFoo), BufferValue(<<1, 0>>),
    [protocolData |-> Arr(VectorProtocolData)], [length |-> 0] }

\* the object d without its property protocolData
WithoutProtocolData(d) == [f \in DOMAIN d \ {"protocolData"} |-> d[f]]

\* the object d with x as its property protocolData
WithProtocolDataOf(d, x) == [d EXCEPT !.protocolData = x]

\* the payloads given in place of d: protocolData missing or no array, for
\* ACK, RESPONSE and MESSAGE also a bare list and a bare value that is no
\* array, and d itself
PayloadsFor(type, d) ==
  { d, WithoutProtocolData(d) }
  \cup { WithProtocolDataOf(d, x) : x \in NotArrays }
  \cup (IF type \in {TYPE_ACK, TYPE_RESPONSE, TYPE_MESSAGE}
        THEN {Arr(VectorProtocolData)} \cup NotArrays ELSE {})

\* serialize(o, v) of such a packet
SerializeWithout ==
  /\ pc = "idle"
  /\ \E w \in WholePackets, v \in Versions :
       \E d \in PayloadsFor(w.type, w.data) :
         /\ pc' = "done"
         /\ call' = "serializeWithout"
         /\ btpVersion' = v
         /\ obj' = Packet(w.type, w.requestId, d)
         /\ buffer' = serialize(Packet(w.type, w.requestId, d), v)
         /\ packet' = NotCalled
         /\ helper' = [fn |-> "serialize"]
  /\ UNCHANGED protocolNameCache

\* transfer identifiers that do not denote 16 bytes: 'abcd', the empty
\* string, 17 bytes, and text that is not hexadecimal
OddTransferIds ==
  { <<97, 98, 99, 100>>, << >>, BufferToHex(Repeat(171, 17)), <<122, 122>> }

\* conditions and fulfillments that do not denote 32 bytes: 31 bytes, 33
\* bytes and the empty string
OddDigests ==
  { base64url(Repeat(7, 31)), base64url(Repeat(7, 33)), << >> }

\* serialize(o, v) of a PREPARE or FULFILL whose transferId or digest may
\* denote another number of bytes than 16 and 32
SerializeWidths ==
  /\ pc = "idle"
  /\ \E type \in {TYPE_PREPARE, TYPE_FULFILL}, v \in Versions,
        i \in TransferIds \cup OddTransferIds, c \in Digests \cup OddDigests :
       \E o \in { Packet(type, <<0, 1>>,
                          IF type = TYPE_PREPARE
                          THEN [transferId |-> i, amount |-> <<49, 48, 48, 48>>,
                                executionCondition |-> c,
                                expiresAt |-> DateOf(2017, 8, 28, 9, 32, 0, 0),
                                protocolData |-> Arr(<< >>)]
                          ELSE [transferId |-> i, fulfillment |-> c,
                                protocolData |-> Arr(<< >>)]) } :
         /\ pc' = "done"
         /\ call' = "serializeWidths"
         /\ btpVersion' = v
         /\ obj' = o
         /\ buffer' = serialize(o, v)
         /\ packet' = NotCalled
         /\ helper' = [fn |-> "serialize"]
         /\ UNCHANGED protocolNameCache

-----------------------------------------------------------------------------

Next ==
  \/ Serialize
  \/ SerializeTransfer
  \/ Receive
  \/ Deserialize
  \/ SerializeW
  \/ SerializeP
  \/ ReceiveP
  \/ DeserializeP
  \/ WriteProtocolDataLength
  \/ ReadProtocolDataLength
  \/ WriteProtocolData
  \/ ReadProtocolData
  \/ WriteEnvelope
  \/ ReadEnvelope
  \/ StringToTwoNumbers
  \/ TwoNumbersToString
  \/ SerializeConvenience
  \/ SerializeClp
  \/ ReceivePrefix
  \/ ReceiveTrailing
  \/ ReceiveExtra
  \/ ReceiveTime
  \/ ReadProtocolDataFrom
  \/ SerializeWithout
  \/ RegisterProtocolNames
  \/ SerializeWidths
  \/ SerializeAckSideData
  \/ DeserializeAckSideData
  \/ SerializeAgain
  \/ DeserializeAgain

Spec == Init /\ [][Next]_vars

-----------------------------------------------------------------------------
(* Properties                                                              *)

\* a call of serialize or serializeTransfer has returned or thrown
Serialized == pc \in {"encoded", "decoded"} /\ call \in {"serialize", "serializeTransfer"}

\* deserialize of the versioned codec has returned or thrown
Deserialized ==
  pc = "decoded" /\ call \in {"serialize", "serializeTransfer", "receive"}

\* the contents of the envelope b: the octet string after type and requestId
ContentsOf(b) == readVarOctetString(b, 5)

\* whether version v defines the type of packet o and o.data has the properties
\* that v expects for it
ShapeFor(o, v) ==
  CASE o.type \in {TYPE_ACK, TYPE_RESPONSE, TYPE_MESSAGE} ->
         IF v = BTP_VERSION_ALPHA THEN IsArray(o.data)
         ELSE DOMAIN o.data = {"protocolData"}
    [] o.type = TYPE_TRANSFER ->
         v = BTP_VERSION_1_1 /\ DOMAIN o.data = {"amount", "protocolData"}
    [] o.type = TYPE_ERROR ->
         IF v = BTP_VERSION_ALPHA
         THEN DOMAIN o.data = {"rejectionReason", "protocolData"}
         ELSE /\ DOMAIN o.data = {"code", "name", "triggeredAt", "data", "protocolData"}
              /\ Len(o.data.code) = 3
    [] o.type = TYPE_PREPARE ->
         DOMAIN o.data = {"transferId", "amount", "executionCondition", "expiresAt",
                          "protocolData"}
    [] o.type = TYPE_FULFILL ->
         DOMAIN o.data = {"transferId", "fulfillment", "protocolData"}
    [] o.type = TYPE_REJECT ->
         IF v = BTP_VERSION_ALPHA
         THEN DOMAIN o.data = {"transferId", "rejectionReason", "protocolData"}
         ELSE DOMAIN o.data = {"transferId", "protocolData"}
    [] OTHER -> FALSE

\* C1: for every version v and every packet p whose type v defines and whose
\* data has the shape v expects, serialize(p, v) succeeds and
\* deserialize(serialize(p, v), v) equals p: same type, same requestId, same data.
RoundTrip ==
  /\ (pc \in {"encoded", "decoded"} /\ call = "serialize" /\ ShapeFor(obj, btpVersion))
       => buffer.ok
  /\ (pc = "decoded" /\ call = "serialize" /\ ShapeFor(obj, btpVersion))
       => (packet.ok /\ packet.val = obj)

\* an alpha ERROR whose embedded ILP error holds 128 bytes of contents comes
\* back with another rejectionReason
RoundTripLost ==
  /\ pc = "decoded"
  /\ call = "serialize"
  /\ btpVersion = BTP_VERSION_ALPHA
  /\ obj.type = TYPE_ERROR
  /\ ShapeFor(obj, btpVersion)
  /\ obj.data.rejectionReason = IlpError(128)
  /\ packet.ok
  /\ packet.val.data.rejectionReason # obj.data.rejectionReason
  /\ packet.val.data.rejectionReason = <<8, 128>> \o Repeat(66, 128)

\* the round trip of every packet that holds no embedded ILP error of 128
\* bytes of contents or more (type byte, one length byte, contents)
RoundTripShortReasons ==
  (/\ pc = "decoded"
   /\ call = "serialize"
   /\ ShapeFor(obj, btpVersion)
   /\ ("rejectionReason" \in DOMAIN obj.data => Len(obj.data.rejectionReason) < 130))
    => (packet.ok /\ packet.val = obj)

\* the MESSAGE of the test vector and its encoding
VectorMessage ==
  Packet(TYPE_MESSAGE, <<0, 1>>, [protocolData |-> Arr(VectorProtocolData)])

VectorBytes ==
  << 6, 0, 0, 0, 1, 37, 1, 4, 3, 105, 108, 112, 0, 0, 3, 102, 111, 111, 0, 3, 98,
     97, 114, 4, 98, 101, 101, 112, 1, 4, 98, 111, 111, 112, 4, 106, 115, 111, 110,
     2, 2, 123, 125 >>

\* C2: serialize of the MESSAGE with requestId 1 and the entries (ilp, 0, ''),
\* (foo, 0, 'bar'), (beep, 1, 'boop'), (json, 2, '{}') under version 1 or 1.1
\* returns exactly the 43 bytes of VectorBytes.
ExactVector ==
  (/\ pc \in {"encoded", "decoded"}
   /\ call = "serialize"
   /\ obj = VectorMessage
   /\ btpVersion \in {BTP_VERSION_1, BTP_VERSION_1_1})
    => (buffer.ok /\ buffer.bytes = VectorBytes /\ Len(buffer.bytes) = 43)

ExactVectorReached ==
  /\ pc = "encoded"
  /\ call = "serialize"
  /\ obj = VectorMessage
  /\ btpVersion = BTP_VERSION_1
  /\ buffer.ok
  /\ Len(buffer.bytes) = 43
  /\ SubSeq(buffer.bytes, 1, 8) = <<6, 0, 0, 0, 1, 37, 1, 4>>

\* C3: the bytes of a MESSAGE serialized under alpha and those of the same
\* requestId and protocol data serialized under version 1 have the same length
\* and differ in the first byte only, which under alpha is one more.
VersionOffset ==
  (/\ pc \in {"encoded", "decoded"}
   /\ call = "serialize"
   /\ btpVersion = BTP_VERSION_ALPHA
   /\ obj.type = TYPE_MESSAGE
   /\ IsArray(obj.data))
    => LET v1 == serialize(Packet(TYPE_MESSAGE, obj.requestId,
                                  [protocolData |-> obj.data]), BTP_VERSION_1)
       IN /\ buffer.ok
          /\ v1.ok
          /\ Len(buffer.bytes) = Len(v1.bytes)
          /\ buffer.bytes[1] = v1.bytes[1] + 1
          /\ \A i \in 2..Len(v1.bytes) : buffer.bytes[i] = v1.bytes[i]

VersionOffsetReached ==
  /\ pc = "encoded"
  /\ call = "serialize"
  /\ btpVersion = BTP_VERSION_ALPHA
  /\ obj.type = TYPE_MESSAGE
  /\ IsArray(obj.data)
  /\ obj.data.items = VectorProtocolData
  /\ obj.requestId = <<65535, 65535>>
  /\ buffer.ok
  /\ buffer.bytes[1] = 7
  /\ Tail(buffer.bytes) = <<255, 255, 255, 255>> \o SubSeq(VectorBytes, 6, 43)

\* the least k in 1..4 with n < 256^k (every count of the model is below 256^4)
LeastWidth(n) ==
  CHOOSE k \in 1..4 : /\ (k = 4 \/ n < Pow(256, k))
                      /\ (k = 1 \/ n >= Pow(256, k - 1))

\* n as k bytes, most significant first
BytesOf(n, k) == [i \in 1..k |-> (n \div Pow(256, k - i)) % 256]

\* C4: for a list of n entries writeProtocolData writes first the byte k, the
\* least k >= 1 with n < 256^k, then n in k bytes big-endian; k is 1, 1, 1, 2,
\* 2, 3 for n = 0, 1, 255, 256, 65535, 65536; readProtocolData reads n back.
CountPrefix ==
  /\ helper.fn \in {"writeProtocolDataLength", "readProtocolDataLength"}
       => /\ helper.out.ok
          /\ helper.out.bytes
               = <<LeastWidth(helper.n)>> \o BytesOf(helper.n, LeastWidth(helper.n))
          /\ (helper.n \in {0, 1, 255} => helper.out.bytes[1] = 1)
          /\ (helper.n \in {256, 65535} => helper.out.bytes[1] = 2)
          /\ (helper.n = 65536 => helper.out.bytes[1] = 3)
  /\ helper.fn = "readProtocolDataLength"
       => /\ helper.back.ok
          /\ helper.back.val = helper.n
          /\ helper.back.pos = Len(helper.out.bytes)
  /\ helper.fn \in {"writeProtocolData", "readProtocolData"}
       => LET n == Len(helper.protocolData.items)
          IN /\ helper.out.ok
             /\ SubSeq(helper.out.bytes, 1, 1 + LeastWidth(n))
                  = <<LeastWidth(n)>> \o BytesOf(n, LeastWidth(n))
  /\ helper.fn = "readProtocolData"
       => /\ helper.back.ok
          /\ Len(helper.back.val.items) = Len(helper.protocolData.items)

CountPrefixReached ==
  /\ helper.fn = "readProtocolDataLength"
  /\ helper.n = 65536
  /\ helper.out.bytes = <<3, 1, 0, 0>>
  /\ helper.back.val = 65536

\* whether every character of the name is ASCII
IsAscii(str) == \A i \in 1..Len(str) : str[i] < 128

\* C5: readProtocolData applied to the bytes that writeProtocolData wrote for a
\* list L returns a list of the same length whose i-th entry has the content
\* type and the data of the i-th entry of L, and its name when that is ASCII.
ListRoundTrip ==
  /\ helper.fn = "writeProtocolData" => helper.out.ok
  /\ helper.fn = "readProtocolData"
       => LET l == helper.protocolData.items
              r == helper.back
          IN /\ r.ok
             /\ r.pos = Len(helper.out.bytes)
             /\ IsArray(r.val)
             /\ Len(r.val.items) = Len(l)
             /\ \A i \in 1..Len(l) :
                  /\ r.val.items[i].contentType = l[i].contentType
                  /\ r.val.items[i].data = l[i].data
                  /\ IsAscii(l[i].protocolName)
                       => r.val.items[i].protocolName = l[i].protocolName

\* a list of 257 entries of one name has come back entry by entry
ListRoundTripReached ==
  /\ helper.fn = "readProtocolData"
  /\ Len(helper.protocolData.items) = 257
  /\ helper.back.ok
  /\ helper.back.val = helper.protocolData
  /\ helper.back.val.items[256].protocolName = helper.back.val.items[257].protocolName
  /\ helper.back.val.items[256].data # helper.back.val.items[257].data

\* C6: for every type byte t in 0..255, every requestId r below 2^32 and every
\* payload p, writeEnvelope(t, r, p) succeeds and readEnvelope of its bytes
\* returns type t, requestId r and data p.
EnvelopeRoundTrip ==
  /\ helper.fn = "writeEnvelope" => helper.out.ok
  /\ helper.fn = "readEnvelope"
       => /\ helper.back.ok
          /\ helper.back.val = [type |-> helper.type, requestId |-> helper.requestId,
                                data |-> helper.contents]

EnvelopeRoundTripReached ==
  /\ helper.fn = "readEnvelope"
  /\ helper.type = 255
  /\ helper.requestId = <<65535, 65535>>
  /\ Len(helper.contents) = 256
  /\ helper.back.ok
  /\ helper.back.val.type = 255
  /\ helper.back.val.requestId = <<65535, 65535>>
  /\ helper.back.val.data = helper.contents

\* '18446744073709551615': 2^64 - 1
MaxUInt64String ==
  <<49, 56, 52, 52, 54, 55, 52, 52, 48, 55, 51, 55, 48, 57, 53, 53, 49, 54, 49, 53>>

\* whether str is the canonical decimal text of an integer in [0, 2^64)
CanonicalAmount(str) ==
  /\ IsDecimal(str)
  /\ Len(str) = 1 \/ str[1] # 48
  /\ \/ Len(str) < 20
     \/ /\ Len(str) = 20
        /\ \/ str = MaxUInt64String
           \/ \E i \in 1..20 : /\ str[i] < MaxUInt64String[i]
                               /\ \A j \in 1..(i - 1) : str[j] = MaxUInt64String[j]

\* C7: for every amount a in [0, 2^64) in canonical decimal,
\* twoNumbersToString(stringToTwoNumbers(a)) = a through the eight bytes of the
\* wire, and a decoded PREPARE or TRANSFER carries the amount that was given.
AmountRoundTrip ==
  /\ (helper.fn = "stringToTwoNumbers" /\ CanonicalAmount(helper.num))
       => writeUInt64(helper.pair).ok
  /\ (helper.fn = "twoNumbersToString" /\ CanonicalAmount(helper.num))
       => helper.str = helper.num
  /\ (/\ Deserialized
      /\ call # "receive"
      /\ obj.type \in {TYPE_PREPARE, TYPE_TRANSFER}
      /\ ShapeFor(obj, btpVersion)
      /\ CanonicalAmount(obj.data.amount))
       => (packet.ok /\ packet.val.data.amount = obj.data.amount)

\* '9007199254740993' (2^53 + 1) has come back digit by digit
AmountRoundTripReached ==
  /\ helper.fn = "twoNumbersToString"
  /\ helper.num = <<57, 48, 48, 55, 49, 57, 57, 50, 53, 52, 55, 52, 48, 57, 57, 51>>
  /\ helper.pair = << <<32, 0>>, <<0, 1>> >>
  /\ helper.str = helper.num

\* the ERROR payload of the call is structured: code, name, triggeredAt, data
StructuredError ==
  /\ pc \in {"encoded", "decoded"}
  /\ call \in {"serialize", "serializeW", "serializeP"}
  /\ call = "serialize" => btpVersion # BTP_VERSION_ALPHA
  /\ obj.type = TYPE_ERROR
  /\ "code" \in DOMAIN obj.data

\* C8: in every codec whose ERROR payload is structured, serialize of an ERROR
\* whose code has a length other than 3 fails and returns no bytes, and a code
\* of 3 characters is written as the first 3 bytes of the contents.
CodeLengthChecked ==
  /\ (StructuredError /\ Len(obj.data.code) # 3) => ~buffer.ok
  /\ (StructuredError /\ Len(obj.data.code) = 3 /\ buffer.ok)
       => SubSeq(ContentsOf(buffer.bytes).val, 1, 3) = obj.data.code

\* the codec written with a Writer has serialized an ERROR whose code is ''
EmptyCodeWritten ==
  /\ StructuredError
  /\ call = "serializeW"
  /\ Len(obj.data.code) = 0
  /\ buffer.ok
  /\ SubSeq(ContentsOf(buffer.bytes).val, 1, 3) = StrF00

\* the same without the empty code in the codec written with a Writer
CodeLengthCheckedButEmpty ==
  /\ (/\ StructuredError
      /\ Len(obj.data.code) # 3
      /\ ~(call = "serializeW" /\ Len(obj.data.code) = 0)) => ~buffer.ok
  /\ (StructuredError /\ Len(obj.data.code) = 3 /\ buffer.ok)
       => SubSeq(ContentsOf(buffer.bytes).val, 1, 3) = obj.data.code

\* the type codes that version v knows on the wire
KnownWireTypes(v) == IF v = BTP_VERSION_ALPHA THEN 1..8 ELSE 0..7

\* the types that the versioned codec and the TypeScript codecs know
KnownTypes == TYPE_ACK..TYPE_TRANSFER

KnownTypesTs == {TYPE_RESPONSE, TYPE_ERROR, TYPE_MESSAGE, TYPE_TRANSFER}

\* the buffer holds a type byte that version btpVersion does not know
UnknownWireType == Deserialized /\ buffer.bytes[1] \notin KnownWireTypes(btpVersion)

\* whether buffer b holds a whole envelope: type, requestId and the contents
\* that its length prefix announces
WholeEnvelope(b) == Len(b) >= 5 /\ ContentsOf(b).ok

\* C9 as stated: serialize fails with 'Unrecognized type' for every packet of a
\* type that the codec does not know, and deserialize fails with the same error
\* for EVERY buffer whose leading byte is no type code of the version.
UnrecognizedTypeAlways ==
  /\ (Serialized /\ obj.type \notin KnownTypes)
       => (~buffer.ok /\ buffer.err = "Unrecognized type")
  /\ UnknownWireType => (~packet.ok /\ packet.err = "Unrecognized type")

\* C9 (amended): serialize fails with 'Unrecognized type' for every packet of
\* a type that the codec does not know; deserialize returns no packet for any
\* buffer whose leading byte is no type code of the version, and the error is
\* 'Unrecognized type' whenever the buffer holds a whole envelope (of a shorter
\* buffer the envelope is read first, and that read fails).  The same holds in
\* the TypeScript codecs for the four types they know.
UnrecognizedType ==
  /\ (Serialized /\ obj.type \notin KnownTypes)
       => (~buffer.ok /\ buffer.err = "Unrecognized type")
  /\ UnknownWireType => ~packet.ok
  /\ (UnknownWireType /\ WholeEnvelope(buffer.bytes))
       => packet.err = "Unrecognized type"
  /\ (UnknownWireType /\ ~WholeEnvelope(buffer.bytes))
       => packet.err # "Unrecognized type"
  /\ (/\ pc \in {"encoded", "decoded"}
      /\ call \in {"serializeW", "serializeP"}
      /\ obj.type \notin KnownTypesTs)
       => (~buffer.ok /\ buffer.err = "Unrecognized type")
  /\ (/\ pc = "decoded"
      /\ call \in {"serializeP", "receiveP"}
      /\ buffer.bytes[1] \notin KnownTypesTs)
       => /\ ~packet.ok
          /\ WholeEnvelope(buffer.bytes) <=> packet.err = "Unrecognized type"

\* a whole envelope with the leading byte 9 has been refused under version 1
UnrecognizedTypeReached ==
  /\ UnknownWireType
  /\ call = "receive"
  /\ btpVersion = BTP_VERSION_1
  /\ buffer.bytes[1] = 9
  /\ WholeEnvelope(buffer.bytes)
  /\ ~packet.ok
  /\ packet.err = "Unrecognized type"

\* the amount that eight bytes hold, as a decimal string
AmountOf(bytes) == twoNumbersToString(readUInt64(bytes, 0).val)

\* C10: TRANSFER exists from version 1.1 only: serialize, serializeTransfer and
\* deserialize fail for a TRANSFER under alpha and under version 1; under
\* version 1.1 they succeed, and the contents are the 8 bytes of the amount
\* followed by the protocol-data list.
TransferFromVersion11 ==
  /\ (Serialized /\ obj.type = TYPE_TRANSFER /\ btpVersion # BTP_VERSION_1_1)
       => ~buffer.ok
  /\ (/\ Deserialized
      /\ typeFromVersion(buffer.bytes[1], btpVersion) = TYPE_TRANSFER
      /\ btpVersion # BTP_VERSION_1_1)
       => ~packet.ok
  /\ (/\ Serialized
      /\ obj.type = TYPE_TRANSFER
      /\ btpVersion = BTP_VERSION_1_1
      /\ ShapeFor(obj, btpVersion))
       => /\ buffer.ok
          /\ buffer.bytes[1] = TYPE_TRANSFER
          /\ ContentsOf(buffer.bytes).ok
          /\ LET contents == ContentsOf(buffer.bytes).val
             IN /\ Len(contents) >= 8
                /\ AmountOf(SubSeq(contents, 1, 8)) = obj.data.amount
                /\ SubSeq(contents, 9, Len(contents))
                     = writeProtocolData(obj.data.protocolData).bytes
          /\ pc = "decoded" => (packet.ok /\ packet.val.type = TYPE_TRANSFER)

\* serializeTransfer under version 1.1 and deserialize of what it returned
TransferFromVersion11Reached ==
  /\ pc = "decoded"
  /\ call = "serializeTransfer"
  /\ btpVersion = BTP_VERSION_1_1
  /\ obj.data.amount = <<49, 48, 48, 48>>
  /\ obj.data.protocolData = Arr(VectorProtocolData)
  /\ buffer.ok
  /\ SubSeq(buffer.bytes, 1, 14) = <<7, 0, 0, 0, 1, 45, 0, 0, 0, 0, 0, 0, 3, 232>>
  /\ packet.ok
  /\ packet.val = obj

\* whether blob is an embedded error packet: one type byte, an OER length
\* prefix and exactly the contents that the prefix announces
IsIlpErrorPacket(blob) ==
  /\ Len(blob) >= 2
  /\ readVarOctetString(blob, 1).ok
  /\ readVarOctetString(blob, 1).pos = Len(blob)

\* deserialize under alpha of an ERROR or a REJECT that embeds an error packet
EmbedsIlpError ==
  /\ pc = "decoded"
  /\ call = "serialize"
  /\ btpVersion = BTP_VERSION_ALPHA
  /\ obj.type \in {TYPE_ERROR, TYPE_REJECT}
  /\ ShapeFor(obj, btpVersion)
  /\ IsIlpErrorPacket(obj.data.rejectionReason)

\* C11: under alpha, for every embedded error packet E (type byte, OER length
\* prefix, contents of any length, 128 bytes and more included), deserialize of
\* an ERROR or REJECT that embeds E returns a rejectionReason equal to E byte
\* for byte, and the protocol-data list is read from the first byte after E.
IlpErrorPassThrough ==
  EmbedsIlpError
    => /\ packet.ok
       /\ packet.val.data.rejectionReason = obj.data.rejectionReason
       /\ packet.val.data.protocolData = obj.data.protocolData

\* an alpha REJECT whose embedded error holds 300 bytes of contents (length
\* prefix 0x82 0x01 0x2C) comes back with the one length byte 300 mod 256, while
\* the list after it is read from the right place
IlpErrorLengthLost ==
  /\ EmbedsIlpError
  /\ obj.type = TYPE_REJECT
  /\ obj.data.rejectionReason = IlpError(300)
  /\ SubSeq(IlpError(300), 1, 4) = <<8, 130, 1, 44>>
  /\ packet.ok
  /\ packet.val.data.rejectionReason = <<8, 44>> \o Repeat(66, 300)
  /\ packet.val.data.protocolData = obj.data.protocolData

\* what does hold: the contents and the list after them are read in full, and
\* the blob is equal to E when the length prefix of E is one byte
IlpErrorContentsKept ==
  EmbedsIlpError
    => /\ packet.ok
       /\ packet.val.data.protocolData = obj.data.protocolData
       /\ LET E == obj.data.rejectionReason
              got == packet.val.data.rejectionReason
          IN /\ got[1] = E[1]
             /\ SubSeq(got, 3, Len(got)) = readVarOctetString(E, 1).val
             /\ E[2] < 128 => got = E

\* a canonical UUID text: 8-4-4-4-12 lowercase hexadecimal digits
IsCanonicalUuid(str) ==
  /\ Len(str) = 36
  /\ \A i \in 1..36 :
       IF i \in {9, 14, 19, 24} THEN str[i] = 45
       ELSE (str[i] >= 48 /\ str[i] <= 57) \/ (str[i] >= 97 /\ str[i] <= 102)

\* the unpadded URL-safe base64 text of 32 bytes: 43 characters of the
\* URL-safe alphabet, the last one carrying four bits
IsDigestText(str) ==
  /\ Len(str) = 43
  /\ \A i \in 1..43 : B64Val(str[i]) >= 0 /\ str[i] # 43 /\ str[i] # 47
  /\ B64Val(str[43]) % 4 = 0

\* the digest text of a PREPARE or a FULFILL
DigestOf(o) ==
  IF o.type = TYPE_PREPARE THEN o.data.executionCondition ELSE o.data.fulfillment

\* where the digest starts in the contents: after the id, and in a PREPARE
\* after the 8 bytes of the amount as well
DigestOffset(o) == IF o.type = TYPE_PREPARE THEN 24 ELSE 16

\* a PREPARE or FULFILL with a canonical id and digest was given to serialize
IdAndDigestGiven ==
  /\ Serialized
  /\ obj.type \in {TYPE_PREPARE, TYPE_FULFILL}
  /\ ShapeFor(obj, btpVersion)
  /\ IsCanonicalUuid(obj.data.transferId)
  /\ IsDigestText(DigestOf(obj))

\* C12: for every canonical lowercase hyphenated transferId and every 32-byte
\* digest given as unpadded URL-safe base64, PREPARE (executionCondition) and
\* FULFILL (fulfillment) hold the id as exactly 16 raw bytes and the digest as
\* exactly 32 raw bytes, and decoding returns the same two texts.
IdAndDigestRoundTrip ==
  IdAndDigestGiven
    => /\ buffer.ok
       /\ ContentsOf(buffer.bytes).ok
       /\ LET contents == ContentsOf(buffer.bytes).val
              off == DigestOffset(obj)
              list == writeProtocolData(obj.data.protocolData).bytes
          IN /\ Len(contents) = (IF obj.type = TYPE_PREPARE THEN 76 ELSE 48) + Len(list)
             /\ uuidUnparse(SubSeq(contents, 1, 16)) = obj.data.transferId
             /\ \A i \in 1..16 :
                  contents[i] = HexVal(RemoveHyphens(obj.data.transferId)[2 * i - 1]) * 16
                                + HexVal(RemoveHyphens(obj.data.transferId)[2 * i])
             /\ base64url(SubSeq(contents, off + 1, off + 32)) = DigestOf(obj)
       /\ pc = "decoded"
            => /\ packet.ok
               /\ packet.val.type = obj.type
               /\ packet.val.data.transferId = obj.data.transferId
               /\ DigestOf(packet.val) = DigestOf(obj)

\* the PREPARE of the test with id 'b4c838f6-80b1-47f8-a82e-b1fcfbed89d5': the
\* 16 bytes of the id follow the envelope header, the 32 bytes of the
\* condition follow the amount, and deserialize gives the packet back
IdAndDigestRoundTripReached ==
  /\ IdAndDigestGiven
  /\ pc = "decoded"
  /\ obj.type = TYPE_PREPARE
  /\ SubSeq(obj.data.transferId, 1, 8) = <<98, 52, 99, 56, 51, 56, 102, 54>>
  /\ buffer.ok
  /\ SubSeq(buffer.bytes, 7, 22)
       = <<180, 200, 56, 246, 128, 177, 71, 248, 168, 46, 177, 252, 251, 237, 137, 213>>
  /\ SubSeq(buffer.bytes, 31, 62)
       = <<219, 42, 249, 249, 219, 166, 255, 52, 179, 237, 173, 251, 152, 107, 155,
           180, 205, 75, 75, 65, 229, 4, 65, 25, 197, 93, 52, 175, 218, 191, 252, 2>>
  /\ packet.ok
  /\ packet.val = obj

\* a convenience function has returned or thrown
ConvenienceCalled == pc = "done" /\ call = "convenience"

\* the default version of the convenience function for a type: serializeAck
\* takes no version and is of alpha
OwnDefaultVersion(type) ==
  IF type = TYPE_ACK THEN BTP_VERSION_ALPHA
  ELSE IF type = TYPE_TRANSFER THEN BTP_VERSION_1_1
  ELSE BTP_VERSION_1

\* the version that a convenience call is made under
VersionOfCall ==
  IF Len(helper.btpVersion) = 0 THEN OwnDefaultVersion(obj.type)
  ELSE helper.btpVersion[1]

\* whether the data of packet o holds exactly the properties of its type under
\* version v: o is then the packet {type, requestId, data} that its parts build
BuiltFor(o, v) ==
  CASE o.type \in {TYPE_ACK, TYPE_RESPONSE, TYPE_MESSAGE} ->
         IF v = BTP_VERSION_ALPHA THEN IsArray(o.data)
         ELSE DOMAIN o.data = {"protocolData"}
    [] o.type = TYPE_TRANSFER -> DOMAIN o.data = {"amount", "protocolData"}
    [] o.type = TYPE_ERROR ->
         IF v = BTP_VERSION_ALPHA
         THEN DOMAIN o.data = {"rejectionReason", "protocolData"}
         ELSE DOMAIN o.data = {"code", "name", "triggeredAt", "data", "protocolData"}
    [] o.type = TYPE_PREPARE ->
         DOMAIN o.data = {"transferId", "amount", "executionCondition", "expiresAt",
                          "protocolData"}
    [] o.type = TYPE_FULFILL ->
         DOMAIN o.data = {"transferId", "fulfillment", "protocolData"}
    [] o.type = TYPE_REJECT ->
         IF v = BTP_VERSION_ALPHA
         THEN DOMAIN o.data = {"transferId", "rejectionReason", "protocolData"}
         ELSE DOMAIN o.data = {"transferId", "protocolData"}
    [] OTHER -> FALSE

\* C13: each convenience serializer (serializeAck .. serializeTransfer) returns
\* exactly what serialize returns, bytes or failure, for the packet {type,
\* requestId, data} built from its arguments under the same version, for every
\* version argument; with the version argument left out the result is that of
\* serialize under the function's own default version (version 1, for
\* serializeTransfer version 1.1), which for these functions is also the result
\* of serialize under its default version 1.1.
ConvenienceIsSerialize ==
  (ConvenienceCalled /\ BuiltFor(obj, VersionOfCall))
    => /\ buffer.ok = serialize(obj, VersionOfCall).ok
       /\ buffer.bytes = serialize(obj, VersionOfCall).bytes
       /\ (Len(helper.btpVersion) = 0 /\ obj.type # TYPE_ACK)
            => buffer.bytes = serialize(obj, BTP_VERSION_1_1).bytes

\* serializeMessage(1, protocolData) without a version returns the 43 bytes of
\* the MESSAGE of the test vector
ConvenienceIsSerializeReached ==
  /\ ConvenienceCalled
  /\ helper.btpVersion = << >>
  /\ obj = VectorMessage
  /\ BuiltFor(obj, VersionOfCall)
  /\ buffer.ok
  /\ buffer.bytes = VectorBytes

\* serializeError or serializeReject of the legacy codec has returned
ClpCalled == pc = "done" /\ helper.fn \in {"serializeError", "serializeReject"}

\* the bytes that an ERROR or a REJECT of the legacy codec holds for the
\* packet B of a rejection reason: the envelope around (the 16 bytes of the
\* transfer id,) B and the protocol-data list
ClpBytesFor(fn, B, transferId, protocolData) ==
  writeEnvelope(
    IF fn = "serializeError" THEN TYPE_ERROR_CLP ELSE TYPE_REJECT_CLP, <<0, 1>>,
    (IF fn = "serializeError" THEN << >> ELSE HexToBuffer(RemoveHyphens(transferId)))
    \o B \o writeProtocolData(protocolData).bytes).bytes

\* C14: for every rejection reason e, ERROR and REJECT serialize to the same
\* bytes whether rejectionReason is the error object e, the buffer
\* B = serializeIlpError(e) or the base64 string of B: the buffer is written
\* unchanged and the string is base64-decoded before it is written.
ReasonFormsAgree ==
  ClpCalled
    => /\ helper.out.ok
       /\ helper.out.bytes
            = ClpBytesFor(helper.fn, serializeIlpError(helper.reason).bytes,
                          helper.transferId, helper.protocolData)
       /\ helper.form = "buffer"
            => /\ helper.given.bytes = serializeIlpError(helper.reason).bytes
               /\ helper.out.bytes
                    = ClpBytesFor(helper.fn, helper.given.bytes, helper.transferId,
                                  helper.protocolData)
       /\ helper.form = "string"
            => /\ Len(helper.given.chars) % 4 = 0
               /\ Base64ToBuffer(helper.given.chars)
                    = serializeIlpError(helper.reason).bytes

\* serializeError with the base64 string of the error of the tests returns
\* the bytes that the tests expect for the error object: the envelope header
\* [3, 0, 0, 0, 1, 0x81, 0x6A] (69 bytes of the packet and 37 of the list),
\* the packet [8, 67, 'L13', 9, 'errorName', ...] and the list
ReasonFormsAgreeReached ==
  /\ ClpCalled
  /\ helper.fn = "serializeError"
  /\ helper.form = "string"
  /\ helper.reason = TestError
  /\ helper.protocolData = Arr(VectorProtocolData)
  /\ helper.out.ok
  /\ SubSeq(helper.given.chars, 1, 8) = <<67, 69, 78, 77, 77, 84, 77, 74>>
  /\ helper.out.bytes
       = <<3, 0, 0, 0, 1, 106, 8, 67, 76, 49, 51, 9, 101, 114, 114, 111, 114, 78, 97,
           109, 101, 5, 112, 101, 101, 114, 46, 1, 3, 6, 100, 105, 101, 32, 100, 97,
           6, 100, 105, 101, 32, 100, 97, 6, 100, 105, 101, 32, 100, 97, 19, 50, 48,
           49, 55, 48, 56, 50, 56, 48, 57, 51, 50, 48, 48, 46, 48, 48, 48, 90, 3, 98,
           111, 111, 0>> \o writeProtocolData(Arr(VectorProtocolData)).bytes

\* deserialize of the versioned codec has returned or thrown, whatever the
\* buffer came from
DeserializedAny ==
  /\ pc = "decoded"
  /\ call \in {"serialize", "serializeTransfer", "receive", "receivePrefix",
               "receiveTrailing", "receiveExtra"}

\* C15: decoding is all or nothing: for every valid encoding b and every
\* strict prefix b' of b, the empty buffer included, deserialize(b') raises an
\* error and returns no packet; and a packet that deserialize does return
\* holds every field of its type (none missing, none defaulted).
AllOrNothing ==
  /\ (pc = "decoded" /\ call = "receivePrefix")
       => /\ Len(buffer.bytes) < Len(helper.whole)
          /\ buffer.bytes = SubSeq(helper.whole, 1, Len(buffer.bytes))
          /\ deserialize(helper.whole, btpVersion).ok
          /\ ~packet.ok
  /\ (DeserializedAny /\ packet.ok)
       => /\ BuiltFor(packet.val, btpVersion)
          /\ call \in {"receiveTrailing", "receiveExtra"}
               => packet.val = deserialize(helper.whole, btpVersion).val

\* the MESSAGE of the test vector without its last byte is not decoded
AllOrNothingReached ==
  /\ pc = "decoded"
  /\ call = "receivePrefix"
  /\ btpVersion = BTP_VERSION_1
  /\ helper.whole = VectorBytes
  /\ buffer.bytes = SubSeq(VectorBytes, 1, 42)
  /\ ~packet.ok

\* C16: for every valid encoding b and every byte string s, deserialize of b
\* followed by s succeeds and returns the packet that deserialize(b) returns:
\* the bytes after the declared payload length are ignored.
TrailingBytesIgnored ==
  (pc = "decoded" /\ call = "receiveTrailing")
    => /\ Len(buffer.bytes) > Len(helper.whole)
       /\ SubSeq(buffer.bytes, 1, Len(helper.whole)) = helper.whole
       /\ deserialize(helper.whole, btpVersion).ok
       /\ packet.ok
       /\ packet.val = deserialize(helper.whole, btpVersion).val
       /\ packet.val.type = obj.type
       /\ packet.val.requestId = obj.requestId

\* the PREPARE sample followed by a whole MESSAGE decodes to the PREPARE
TrailingBytesIgnoredReached ==
  /\ pc = "decoded"
  /\ call = "receiveTrailing"
  /\ obj.type = TYPE_PREPARE
  /\ Len(buffer.bytes) = Len(helper.whole) + 43
  /\ SubSeq(buffer.bytes, Len(helper.whole) + 1, Len(buffer.bytes)) = VectorBytes
  /\ packet.ok
  /\ packet.val = obj

\* C17: for every packet type, when the payload holds the fields of the type
\* in their order followed by extra bytes that the declared payload length
\* covers, deserialize returns the packet it returns for the payload without
\* the extra bytes: no per-type decoder checks that the payload is used up.
ExtraPayloadIgnored ==
  (pc = "decoded" /\ call = "receiveExtra")
    => /\ ContentsOf(buffer.bytes).ok
       /\ ContentsOf(buffer.bytes).pos = Len(buffer.bytes)
       /\ LET payload == ContentsOf(buffer.bytes).val
              fields == ContentsOf(helper.whole).val
          IN /\ Len(payload) > Len(fields)
             /\ SubSeq(payload, 1, Len(fields)) = fields
       /\ deserialize(helper.whole, btpVersion).ok
       /\ packet.ok
       /\ packet.val = deserialize(helper.whole, btpVersion).val
       /\ packet.val.type = obj.type

\* the FULFILL sample with 200 more bytes in its payload (the length prefix
\* grows to 0x82 and two length bytes) decodes to the FULFILL
ExtraPayloadIgnoredReached ==
  /\ pc = "decoded"
  /\ call = "receiveExtra"
  /\ obj.type = TYPE_FULFILL
  /\ btpVersion = BTP_VERSION_1_1
  /\ buffer.bytes[6] = 130
  /\ Len(buffer.bytes) = Len(helper.whole) + 202
  /\ SubSeq(buffer.bytes, Len(buffer.bytes) - 199, Len(buffer.bytes)) = Repeat(1, 200)
  /\ packet.ok
  /\ packet.val = obj

\* the timestamp that a decoded PREPARE or ERROR holds
TimeOf(p) ==
  IF p.type = TYPE_PREPARE THEN p.data.expiresAt ELSE p.data.triggeredAt

\* the shape YYYYMMDDHHMMSS.mmmZ: 14 digits, a dot, 3 digits, 'Z'
HasTimeShape(str) ==
  /\ Len(str) = 19
  /\ \A i \in 1..19 :
       IF i = 15 THEN str[i] = 46
       ELSE IF i = 19 THEN str[i] = 90
       ELSE str[i] \in 48..57

\* C18: decoding a timestamp field (PREPARE expiresAt, ERROR triggeredAt) whose
\* stored string has not the exact shape YYYYMMDDHHMMSS.mmmZ fails, so that
\* deserialize returns no packet; a string of the shape decodes to the
\* date-time that it denotes in UTC.
TimestampChecked ==
  (pc = "decoded" /\ call = "receiveTime")
    => IF HasTimeShape(helper.time)
       THEN /\ packet.ok
            /\ helper.time = StrTime
                 => TimeOf(packet.val) = DateOf(2017, 8, 28, 9, 32, 0, 0)
       ELSE ~packet.ok

\* a PREPARE whose expiresAt field holds 'soon' is decoded, with an invalid
\* date for expiresAt
MalformedTimeDecoded ==
  /\ pc = "decoded"
  /\ call = "receiveTime"
  /\ helper.time = <<115, 111, 111, 110>>
  /\ ~HasTimeShape(helper.time)
  /\ packet.ok
  /\ packet.val.type = TYPE_PREPARE
  /\ packet.val.data.expiresAt = InvalidDate

\* what does hold: deserialize returns a packet whatever the text is; a text
\* of the shape gives the date it denotes (an invalid date when it denotes
\* none), the ISO text gives its date, and the other texts an invalid date
TimestampNeverChecked ==
  (pc = "decoded" /\ call = "receiveTime")
    => /\ packet.ok
       /\ helper.time = StrTime
            => TimeOf(packet.val) = DateOf(2017, 8, 28, 9, 32, 0, 0)
       /\ Len(helper.time) = 24
            => TimeOf(packet.val) = DateOf(2017, 8, 28, 9, 32, 0, 0)
       /\ (HasTimeShape(helper.time) /\ helper.time[5] = 49)
            => TimeOf(packet.val) = InvalidDate
       /\ (HasTimeShape(helper.time) /\ helper.time[9] = 50)
            => TimeOf(packet.val) = DateOf(2017, 8, 29, 0, 0, 0, 0)
       /\ (~HasTimeShape(helper.time) /\ Len(helper.time) # 24)
            => TimeOf(packet.val) = InvalidDate

\* the count width that the first byte of list buffer b declares
DeclaredWidth(b) == b[1]

\* whether b holds its first byte and the bytes of the count after it
WidthSupplied(b) == Len(b) >= 1 /\ Len(b) >= 1 + DeclaredWidth(b)

\* the count that b declares: the bytes after the first one, big-endian
DeclaredCount(b) ==
  IF DeclaredWidth(b) = 0 THEN 0
  ELSE FromBigEndian(SubSeq(b, 2, 1 + DeclaredWidth(b)))

\* how many complete entries b holds one after the other from offset pos on,
\* counted up to max
RECURSIVE EntriesPresent(_, _, _)
EntriesPresent(b, pos, max) ==
  IF max = 0 \/ ~readProtocolDataEntry(b, pos).ok THEN 0
  ELSE 1 + EntriesPresent(b, readProtocolDataEntry(b, pos).pos, max - 1)

\* C19: readProtocolData fails and returns no list whenever its first byte
\* declares a count width that the rest of the buffer cannot supply, or the
\* declared count is larger than the number of complete entries present
\* after it; a list that it returns is never shorter than the declared count.
ShortListFails ==
  (pc = "done" /\ helper.fn = "readProtocolDataFrom")
    => LET b == helper.buf
           present == EntriesPresent(b, 1 + DeclaredWidth(b), Len(b))
       IN /\ ~WidthSupplied(b) => ~helper.out.ok
          /\ (WidthSupplied(b) /\ DeclaredCount(b) > present) => ~helper.out.ok
          /\ helper.out.ok
               => /\ WidthSupplied(b)
                  /\ Len(helper.out.val.items) = DeclaredCount(b)
                  /\ DeclaredCount(b) <= present

\* a list that declares five entries and holds the four of the test vector
\* is not read
ShortListFailsReached ==
  /\ pc = "done"
  /\ helper.fn = "readProtocolDataFrom"
  /\ helper.buf = <<1, 5>> \o VectorEntries
  /\ WidthSupplied(helper.buf)
  /\ DeclaredCount(helper.buf) = 5
  /\ EntriesPresent(helper.buf, 2, Len(helper.buf)) = 4
  /\ ~helper.out.ok

\* the value that serialize(o, v) hands to writeProtocolData
ProtocolDataGiven(o, v) ==
  IF o.type \in {TYPE_ACK, TYPE_RESPONSE, TYPE_MESSAGE} /\ v = BTP_VERSION_ALPHA
  THEN o.data
  ELSE Field(o.data, "protocolData")

\* serialize was called with a packet of a known type that has a payload and
\* whose protocol data is no array
NoArrayGiven ==
  /\ pc = "done"
  /\ call = "serializeWithout"
  /\ ~IsUndefined(obj.data) \/ btpVersion = BTP_VERSION_ALPHA
  /\ ~IsArray(ProtocolDataGiven(obj, btpVersion))

\* C20 as stated: for every packet type and version, serialize fails with
\* the error 'protocolData must be an array' and returns no bytes when the
\* protocol data it is given is no array.
NoArrayErrorAlways ==
  NoArrayGiven
    => ~buffer.ok /\ buffer.err = "protocolData must be an array"

\* C20: serialize returns no bytes when the protocol data it is given is no
\* array (a missing field, a value of another kind, a payload in the shape of
\* the other version); it fails with 'protocolData must be an array' for
\* every type and version except TRANSFER under alpha and version 1, where
\* the check of the version comes first and its error is the one thrown.
NoArrayError ==
  NoArrayGiven
    => /\ ~buffer.ok
       /\ buffer.err =
            (IF obj.type = TYPE_TRANSFER /\ btpVersion < BTP_VERSION_1_1
             THEN "TYPE_TRANSFER does not exist in earlier version than 1.1"
             ELSE "protocolData must be an array")

\* a PREPARE without the field protocolData was refused under version 1.1
NoArrayErrorReached ==
  /\ NoArrayGiven
  /\ obj.type = TYPE_PREPARE
  /\ btpVersion = BTP_VERSION_1_1
  /\ "protocolData" \notin DOMAIN obj.data
  /\ ~buffer.ok
  /\ buffer.err = "protocolData must be an array"

\* a TRANSFER without the field protocolData was refused under alpha with the
\* error of the version
NoArrayOtherError ==
  /\ NoArrayGiven
  /\ obj.type = TYPE_TRANSFER
  /\ btpVersion = BTP_VERSION_ALPHA
  /\ "protocolData" \notin DOMAIN obj.data
  /\ ~buffer.ok
  /\ buffer.err = "TYPE_TRANSFER does not exist in earlier version than 1.1"

-----------------------------------------------------------------------------
\* C21: serialize and deserialize are deterministic: a second call of
\* serialize with the same packet, an ERROR packet without triggeredAt
\* included, returns the bytes of the first call whatever time has passed,
\* and a second call of deserialize with the same buffer returns the packet
\* of the first call.
Deterministic ==
  /\ call = "serializeAgain" => buffer = helper.first
  /\ call = "deserializeAgain" => packet = helper.first

\* the part of C21 about deserialize alone
DeserializeDeterministic ==
  call = "deserializeAgain" => packet = helper.first

\* the part of C21 about serialize for the packets that give a triggeredAt
\* or have none to give
SerializeDeterministicWithTime ==
  (call = "serializeAgain"
   /\ (obj.type = TYPE_ERROR => Has(obj.data, {"triggeredAt"})))
    => buffer = helper.first

\* an ERROR packet without triggeredAt was serialized twice, at two times,
\* and the two calls returned different bytes
SerializeTwiceDiffers ==
  /\ call = "serializeAgain"
  /\ obj.type = TYPE_ERROR
  /\ ~Has(obj.data, {"triggeredAt"})
  /\ helper.first.ok
  /\ buffer.ok
  /\ buffer.bytes # helper.first.bytes

-----------------------------------------------------------------------------
\* every entry of the cache maps a name to the ASCII bytes of the name
CacheEntriesAscii ==
  \A n \in DOMAIN protocolNameCache : protocolNameCache[n] = AsciiToBuffer(n)

\* a step keeps every entry of the cache as it is, and a step that is no call
\* of registerProtocolNames keeps the whole cache
CacheKept ==
  /\ \A n \in DOMAIN protocolNameCache :
       /\ n \in DOMAIN protocolNameCache'
       /\ protocolNameCache'[n] = protocolNameCache[n]
  /\ call' # "registerProtocolNames" => protocolNameCache' = protocolNameCache

\* the caches that registrations can build
Caches ==
  { registerProtocolNames(EmptyCache, names) :
      names \in SUBSET (RegisteredNames \cup NamesToRegister) }

\* the protocol names of the packet given to serialize
NamesOf(o) ==
  IF IsArray(Field(o.data, "protocolData"))
  THEN { o.data.protocolData.items[i].protocolName :
           i \in 1..Len(o.data.protocolData.items) }
  ELSE {}

\* what serialize returned is what it returns with every other cache
SameWhateverRegistered ==
  (pc = "encoded" /\ call = "serializeP")
    => \A cache \in Caches : buffer = serializeP(obj, cache)

\* C22: after any sequence of calls of registerProtocolNames, serialize and
\* deserialize every entry of the cache maps a name to the ASCII bytes of
\* that name, serialize and deserialize leave the cache as it is, an entry
\* never changes once it is there, and what serialize produces is the same
\* whatever names are registered.
CacheTransparent ==
  /\ []CacheEntriesAscii
  /\ [][CacheKept]_vars
  /\ []SameWhateverRegistered

\* the part of C22 about the entries of the cache
CacheSound == []CacheEntriesAscii /\ [][CacheKept]_vars

\* the last part of C22 for the packets that name no property inherited by
\* every object
SameWhateverRegisteredOwn ==
  (pc = "encoded" /\ call = "serializeP"
   /\ NamesOf(obj) \cap ObjectPrototypeNames = {})
    => \A cache \in Caches : buffer = serializeP(obj, cache)

\* with 'constructor' registered serialize returned the bytes of a packet
\* that names the protocol 'constructor', and it throws with the cache that
\* the module builds when it loads
RegisteredNameChangesResult ==
  /\ pc = "encoded"
  /\ call = "serializeP"
  /\ StrConstructor \in DOMAIN protocolNameCache
  /\ StrConstructor \in NamesOf(obj)
  /\ buffer.ok
  /\ ~serializeP(obj, CacheAtLoad).ok

-----------------------------------------------------------------------------
\* the bytes of the side data sd as C23 lays them out: 1, the number of the
\* keys, then every key and every value with its length before it
RECURSIVE SideDataLayout(_)
SideDataLayout(props) ==
  IF Len(props) = 0 THEN << >>
  ELSE <<Len(props[1][1])>> \o AsciiToBuffer(props[1][1])
       \o <<Len(props[1][2])>> \o props[1][2] \o SideDataLayout(Tail(props))

\* serializeAck wrote the side data as C23 lays it out
SideDataWritten ==
  (pc \in {"encoded", "decoded"} /\ call = "serializeAckSideData")
    => /\ buffer.ok
       /\ SubSeq(buffer.bytes, 7, Len(buffer.bytes))
            = <<1, Len(obj.sideData.props)>> \o SideDataLayout(obj.sideData.props)

\* deserializeAck returned the request identifier and the side data given to
\* serializeAck: an object with the same keys and values
SideDataReturned ==
  (pc = "decoded" /\ call = "serializeAckSideData")
    => /\ packet.ok
       /\ packet.val.requestId = obj.requestId
       /\ packet.val.sideData.proto = obj.sideData.proto
       /\ { packet.val.sideData.props[i] :
              i \in 1..Len(packet.val.sideData.props) }
            = { obj.sideData.props[i] : i \in 1..Len(obj.sideData.props) }
       /\ Len(packet.val.sideData.props) = Len(obj.sideData.props)

\* C23: for every request identifier and every side data with up to 255
\* distinct ASCII keys, writeSideData writes the byte 1, the number of the
\* keys in one byte and then every key and value as length-prefixed strings,
\* and deserializeAck(serializeAck(r, sd)) returns r and sd.
SideDataRoundTrip == SideDataWritten /\ SideDataReturned

\* the part of C23 about the result for side data without the key '__proto__'
SideDataRoundTripOwn ==
  (pc = "decoded" /\ call = "serializeAckSideData")
    => ((\A i \in 1..Len(obj.sideData.props) :
           obj.sideData.props[i][1] # StrProto)
          => SideDataReturned)

\* side data with the key '__proto__' came back without it
ProtoKeyLost ==
  /\ pc = "decoded"
  /\ call = "serializeAckSideData"
  /\ \E i \in 1..Len(obj.sideData.props) : obj.sideData.props[i][1] = StrProto
  /\ packet.ok
  /\ \A i \in 1..Len(packet.val.sideData.props) :
       packet.val.sideData.props[i][1] # StrProto
  /\ packet.val.sideData.proto # {}

-----------------------------------------------------------------------------
\* C24: the type byte on the wire is the type plus one under alpha and the
\* type itself under the other versions; mapping it back gives the type; and
\* within one version no other known type has the same wire byte.
TypeMapping ==
  /\ (Serialized /\ buffer.ok)
       => /\ buffer.bytes[1] = (IF btpVersion = BTP_VERSION_ALPHA
                                THEN obj.type + 1 ELSE obj.type)
          /\ typeFromVersion(buffer.bytes[1], btpVersion) = obj.type
          /\ \A t \in KnownTypes \ {obj.type} :
               typeToVersion(t, btpVersion) # buffer.bytes[1]
  /\ (Deserialized /\ packet.ok)
       => /\ packet.val.type = (IF btpVersion = BTP_VERSION_ALPHA
                                THEN buffer.bytes[1] - 1 ELSE buffer.bytes[1])
          /\ typeToVersion(packet.val.type, btpVersion) = buffer.bytes[1]
          /\ call \in {"serialize", "serializeTransfer"}
               => packet.val.type = obj.type

\* a MESSAGE went over the wire as byte 7 under alpha and came back as type 6
TypeMappedUnderAlpha ==
  /\ Deserialized
  /\ call = "serialize"
  /\ btpVersion = BTP_VERSION_ALPHA
  /\ obj.type = TYPE_MESSAGE
  /\ buffer.ok
  /\ buffer.bytes[1] = TYPE_MESSAGE + 1
  /\ packet.ok
  /\ packet.val.type = TYPE_MESSAGE

-----------------------------------------------------------------------------
\* C25: ACK exists under alpha only: under versions 1 and 1.1 serialize of a
\* packet of type ACK fails, and deserialize of a buffer whose type byte is 0
\* fails, both with the error of an unrecognized type.
AckOnlyInAlpha ==
  /\ (Serialized /\ obj.type = TYPE_ACK /\ btpVersion # BTP_VERSION_ALPHA)
       => (~buffer.ok /\ buffer.err = "Unrecognized type")
  /\ (DeserializedAny /\ btpVersion # BTP_VERSION_ALPHA
      /\ Len(buffer.bytes) > 0 /\ buffer.bytes[1] = TYPE_ACK)
       => (~packet.ok /\ packet.err = "Unrecognized type")

\* under alpha an ACK is written with the type byte 1 and read back
AckInAlpha ==
  (Deserialized /\ call = "serialize" /\ obj.type = TYPE_ACK
   /\ btpVersion = BTP_VERSION_ALPHA /\ IsArray(obj.data))
    => /\ buffer.ok
       /\ buffer.bytes[1] = TYPE_ACK + 1
       /\ packet.ok
       /\ packet.val.type = TYPE_ACK

\* an ACK was written with the type byte 0 under version 1.1 and read back
AckAcceptedUnderV1_1 ==
  /\ Deserialized
  /\ call = "serialize"
  /\ obj.type = TYPE_ACK
  /\ btpVersion = BTP_VERSION_1_1
  /\ buffer.ok
  /\ buffer.bytes[1] = TYPE_ACK
  /\ packet.ok
  /\ packet.val.type = TYPE_ACK

-----------------------------------------------------------------------------
\* the decimal string str without its leading zeros ('0' for zero)
StripZeros(str) ==
  IF \A i \in 1..Len(str) : str[i] = 48
  THEN (IF Len(str) = 0 THEN str ELSE <<48>>)
  ELSE SubSeq(str, CHOOSE i \in 1..Len(str) :
                     str[i] # 48 /\ \A j \in 1..(i - 1) : str[j] = 48,
              Len(str))

\* whether the decimal string a, without leading zeros, denotes a smaller
\* number than b does
DecimalLess(a, b) ==
  IF Len(a) # Len(b) THEN Len(a) < Len(b)
  ELSE \E i \in 1..Len(a) : a[i] < b[i] /\ \A j \in 1..(i - 1) : a[j] = b[j]

\* '18446744073709551616'
Str2Pow64 ==
  <<49, 56, 52, 52, 54, 55, 52, 52, 48, 55, 51, 55, 48, 57, 53, 53, 49, 54, 49, 54>>

\* str denotes an integer a with 0 <= a < 2^64
IsUInt64String(str) == IsDecimal(str) /\ DecimalLess(StripZeros(str), Str2Pow64)

\* C26: for 0 <= a < 2^64 the legacy encoding splits a into hi and lo with
\* hi * 2^32 + lo = a, its 8 bytes are the 8-byte big-endian encoding that the
\* modern codec writes, and a TRANSFER has the same bytes in both
\* implementations.
LegacyAmountBytes ==
  /\ (pc \in {"helper", "done"}
      /\ helper.fn \in {"stringToTwoNumbers", "twoNumbersToString"}
      /\ IsUInt64String(helper.num))
       => /\ twoNumbersToString(helper.pair) = StripZeros(helper.num)
          /\ writeUInt64(helper.pair).ok
          /\ writeUInt64String(helper.num).ok
          /\ writeUInt64(helper.pair).bytes = writeUInt64String(helper.num).bytes
  /\ (Serialized /\ obj.type = TYPE_TRANSFER /\ Has(obj.data, {"amount"})
      /\ btpVersion = BTP_VERSION_1_1 /\ IsUInt64String(obj.data.amount)
      /\ IsArray(Field(obj.data, "protocolData")))
       => /\ buffer.ok
          /\ buffer = serializeP(obj, CacheAtLoad)
          /\ \A now \in Dates : buffer = serializeW(obj, now)
          /\ SubSeq(ContentsOf(buffer.bytes).val, 1, 8)
               = writeUInt64String(obj.data.amount).bytes

\* the TRANSFER of 2^53 + 1 was written by the legacy codec with the amount
\* bytes 00 20 00 00 00 00 00 01
TransferAmountWritten ==
  /\ Serialized
  /\ obj.type = TYPE_TRANSFER
  /\ btpVersion = BTP_VERSION_1_1
  /\ obj.data.amount = <<57, 48, 48, 55, 49, 57, 57, 50, 53, 52, 55, 52, 48, 57, 57, 51>>
  /\ buffer.ok
  /\ SubSeq(ContentsOf(buffer.bytes).val, 1, 8) = <<0, 32, 0, 0, 0, 0, 0, 1>>
  /\ buffer = serializeP(obj, CacheAtLoad)

-----------------------------------------------------------------------------
\* the packets that differ from o in the rejection reason at most: o with
\* every reason of RejectionReasons and o without a reason
WithOtherReasons(o) ==
  { [o EXCEPT !.data = [f \in DOMAIN o.data \cup {"rejectionReason"} |->
                          IF f = "rejectionReason" THEN e ELSE o.data[f]]] :
      e \in RejectionReasons }
  \cup { [o EXCEPT !.data = [f \in DOMAIN o.data \ {"rejectionReason"} |->
                               o.data[f]]] }

\* serialize has returned the bytes of a REJECT
RejectSerialized ==
  /\ Serialized
  /\ call = "serialize"
  /\ obj.type = TYPE_REJECT
  /\ buffer.ok

\* C27: under versions 1 and 1.1 the payload of a REJECT is the 16 bytes of
\* the transferId and then the protocol-data list; two REJECTs that differ in
\* the rejection reason only have the same bytes; deserialize returns a
\* REJECT with transferId and protocolData and no rejectionReason; under
\* alpha, and there only, the reason is written and read.
RejectWithoutReason ==
  /\ (RejectSerialized /\ btpVersion # BTP_VERSION_ALPHA)
       => /\ ContentsOf(buffer.bytes).ok
          /\ uuidUnparse(SubSeq(ContentsOf(buffer.bytes).val, 1, 16))
               = obj.data.transferId
          /\ ContentsOf(buffer.bytes).val
               = SubSeq(ContentsOf(buffer.bytes).val, 1, 16)
                 \o writeProtocolData(obj.data.protocolData).bytes
          /\ \A o \in WithOtherReasons(obj) : serialize(o, btpVersion) = buffer
  /\ (RejectSerialized /\ btpVersion # BTP_VERSION_ALPHA /\ pc = "decoded")
       => /\ packet.ok
          /\ packet.val.type = TYPE_REJECT
          /\ DOMAIN packet.val.data = {"transferId", "protocolData"}
          /\ packet.val.data.transferId = obj.data.transferId
          /\ packet.val.data.protocolData = obj.data.protocolData
  /\ (RejectSerialized /\ btpVersion = BTP_VERSION_ALPHA)
       => /\ Has(obj.data, {"rejectionReason"})
          /\ ContentsOf(buffer.bytes).val
               = SubSeq(ContentsOf(buffer.bytes).val, 1, 16)
                 \o obj.data.rejectionReason
                 \o writeProtocolData(obj.data.protocolData).bytes
  /\ (RejectSerialized /\ btpVersion = BTP_VERSION_ALPHA /\ pc = "decoded"
      /\ packet.ok)
       => "rejectionReason" \in DOMAIN packet.val.data

\* a REJECT with a rejection reason was written under version 1.1 without
\* the reason and read back without it
RejectReasonDropped ==
  /\ RejectSerialized
  /\ pc = "decoded"
  /\ btpVersion = BTP_VERSION_1_1
  /\ Has(obj.data, {"rejectionReason"})
  /\ Len(obj.data.rejectionReason) > 0
  /\ Len(ContentsOf(buffer.bytes).val)
       = 16 + Len(writeProtocolData(obj.data.protocolData).bytes)
  /\ packet.ok
  /\ "rejectionReason" \notin DOMAIN packet.val.data

-----------------------------------------------------------------------------
\* serialize of the codec written with a Predictor was given a RESPONSE or a
\* MESSAGE with a protocol name that is not registered
UnregisteredNameGiven ==
  /\ pc \in {"encoded", "decoded"}
  /\ call = "serializeP"
  /\ obj.type \in {TYPE_RESPONSE, TYPE_MESSAGE}
  /\ \E n \in NamesOf(obj) : n \notin DOMAIN protocolNameCache

\* C28: for every protocol name that was never registered, the names that
\* every plain object inherits ('constructor') included, writeProtocolData
\* finds no buffer in the cache and writes the ASCII bytes of the name with
\* their length before them.
UnregisteredNameWritten ==
  UnregisteredNameGiven
    => /\ buffer.ok
       /\ ContentsOf(buffer.bytes).val
            = writeProtocolData(obj.data.protocolData).bytes

\* C28 for the names that a plain object does not inherit
UnregisteredOwnNameWritten ==
  (UnregisteredNameGiven /\ NamesOf(obj) \cap ObjectPrototypeNames = {})
    => /\ buffer.ok
       /\ ContentsOf(buffer.bytes).val
            = writeProtocolData(obj.data.protocolData).bytes

\* serialize threw for a packet with the protocol name 'constructor', which
\* was not registered
InheritedNameRefused ==
  /\ UnregisteredNameGiven
  /\ StrConstructor \in NamesOf(obj)
  /\ StrConstructor \notin DOMAIN protocolNameCache
  /\ ~buffer.ok
  /\ buffer.err = "TypeError"

\* serialize wrote a protocol name that is not registered and not inherited
OwnNameWritten ==
  /\ UnregisteredNameGiven
  /\ NamesOf(obj) \cap ObjectPrototypeNames = {}
  /\ buffer.ok

-----------------------------------------------------------------------------
\* the packet o has every field of its type, for the TypeScript codecs
AllFieldsSet(o) ==
  /\ o.type \in KnownTypesTs
  /\ IsArray(Field(o.data, "protocolData"))
  /\ o.type = TYPE_TRANSFER => Has(o.data, {"amount"})
  /\ o.type = TYPE_ERROR => Has(o.data, {"code", "name", "triggeredAt", "data"})

\* serialize of the codec written with a Predictor was given a packet with
\* every field
TwoPassCalled ==
  /\ pc \in {"encoded", "decoded"}
  /\ call = "serializeP"
  /\ AllFieldsSet(obj)

\* serialize has returned what the codec written with a Writer returns for
\* the same packet
SameAsOnePass ==
  \A now \in Dates :
    /\ buffer.ok <=> serializeW(obj, now).ok
    /\ buffer.ok => buffer.bytes = serializeW(obj, now).bytes

\* the Predictor announced the number of bytes that the second pass wrote,
\* and the buffer returned holds the type, the request identifier, the length
\* prefix and as many bytes of contents
PredictedAsWritten ==
  buffer.ok
    => /\ predictContents(obj, protocolNameCache).length
            = Len(writeContentsP(obj, protocolNameCache).bytes)
       /\ ContentsOf(buffer.bytes).ok
       /\ ContentsOf(buffer.bytes).val
            = writeContentsP(obj, protocolNameCache).bytes
       /\ Len(buffer.bytes)
            = 1 + 4
              + measureVarOctetString(predictContents(obj, protocolNameCache).length)

\* C29: for every packet with all fields set the serialize in two passes, a
\* Predictor and then a Writer of the predicted size, returns the bytes of the
\* serialize in one pass with a Writer that grows; the predicted length is
\* the number of bytes written, and the buffer has the length 1 + 4 + the
\* size of the length prefix + the length of the contents.
TwoPassAsOnePass == TwoPassCalled => (SameAsOnePass /\ PredictedAsWritten)

\* the part of C29 about the lengths
TwoPassLengths == TwoPassCalled => PredictedAsWritten

\* C29 for the packets whose protocol names are registered or not inherited
\* and whose error code is not the empty string
TwoPassAsOnePassOwn ==
  (TwoPassCalled
   /\ NamesOf(obj) \cap ObjectPrototypeNames \subseteq DOMAIN protocolNameCache
   /\ (obj.type = TYPE_ERROR => Len(obj.data.code) > 0))
    => (SameAsOnePass /\ PredictedAsWritten)

\* the two passes threw for a packet with all fields set that the one pass
\* serializes
TwoPassesThrow ==
  /\ TwoPassCalled
  /\ obj.type = TYPE_RESPONSE
  /\ ~buffer.ok
  /\ \A now \in Dates : serializeW(obj, now).ok

\* the two passes wrote an ERROR as the one pass does
TwoPassesWritten ==
  /\ TwoPassCalled
  /\ buffer.ok
  /\ obj.type = TYPE_ERROR
  /\ SameAsOnePass

-----------------------------------------------------------------------------
\* serialize was given a PREPARE or a FULFILL
WidthsCalled ==
  /\ pc = "done"
  /\ call = "serializeWidths"
  /\ obj.type \in {TYPE_PREPARE, TYPE_FULFILL}

\* the bytes that the transferId of the packet denotes
TransferIdBytes == HexToBuffer(RemoveHyphens(obj.data.transferId))

\* the bytes that the condition or the fulfillment of the packet denotes
DigestBytes == Base64ToBuffer(DigestOf(obj))

\* the payload holds the transferId in its first 16 bytes and the digest in
\* the 32 bytes that follow them and, for PREPARE, the 8 bytes of the amount
WidthsWritten ==
  /\ ContentsOf(buffer.bytes).ok
  /\ Len(TransferIdBytes) = 16
  /\ Len(DigestBytes) = 32
  /\ Len(ContentsOf(buffer.bytes).val) >= DigestOffset(obj) + 32
  /\ SubSeq(ContentsOf(buffer.bytes).val, 1, 16) = TransferIdBytes
  /\ SubSeq(ContentsOf(buffer.bytes).val, DigestOffset(obj) + 1, DigestOffset(obj) + 32)
       = DigestBytes

\* C30: whenever serialize returns bytes for a PREPARE or a FULFILL, the
\* payload starts with the 16 bytes of the transferId, followed (after the 8
\* bytes of the amount for PREPARE) by the 32 bytes of the digest; a
\* transferId that does not denote 16 bytes or a digest that does not denote
\* 32 bytes is refused with an error and never written with another width.
FixedWidths ==
  WidthsCalled
    => /\ buffer.ok => WidthsWritten
       /\ (Len(TransferIdBytes) # 16 \/ Len(DigestBytes) # 32) => ~buffer.ok

\* C30 for the identifiers of 16 bytes and the digests of 32 bytes
FixedWidthsOfValid ==
  (WidthsCalled /\ Len(TransferIdBytes) = 16 /\ Len(DigestBytes) = 32
   /\ buffer.ok)
    => WidthsWritten

\* a FULFILL with the transferId 'abcd' was written with 2 bytes of
\* transferId
ShortTransferIdWritten ==
  /\ WidthsCalled
  /\ obj.type = TYPE_FULFILL
  /\ obj.data.transferId = <<97, 98, 99, 100>>
  /\ Len(DigestBytes) = 32
  /\ buffer.ok
  /\ Len(ContentsOf(buffer.bytes).val) = 2 + 32 + 2
  /\ SubSeq(ContentsOf(buffer.bytes).val, 1, 2) = <<171, 205>>

\* a PREPARE and a FULFILL of 16 and 32 bytes were written
ValidWidthsWritten ==
  /\ WidthsCalled
  /\ Len(TransferIdBytes) = 16
  /\ Len(DigestBytes) = 32
  /\ buffer.ok
  /\ WidthsWritten

=============================================================================
